---- MODULE Spec2Model ----
(***************************************************************************)
(* Context Weaver: the highlight core of the document viewer.              *)
(*                                                                         *)
(*   - renderDocumentWithHighlights (the Offset Mapper) as an operator,    *)
(*     exercised on bounded inputs by SpecRender;                          *)
(*   - the DocumentViewer component (selection, annotation form, insert    *)
(*     and reload of annotations) as a state machine: Spec and SpecOverlap *)
(*     for one document shown, SpecMulti for several side by side,         *)
(*     SpecForm for the lifetime of one annotation form, SpecLoad for the  *)
(*     first reload over stored annotations of several documents;          *)
(*   - the colors of the highlights, exercised by SpecColor;               *)
(*   - the documents, annotations and connections tables with their        *)
(*     foreign keys: SpecStorage;                                          *)
(*   - the ViewerSelector component that renders the viewer: SpecSelector, *)
(*     and its toggleDocument called in any order: SpecToggle;             *)
(*   - ConnectionsView with its modal form: SpecConnect;                   *)
(*   - the requests the pages send to the storage over the sessions of     *)
(*     the users: SpecClient.                                              *)
(*                                                                         *)
(* Text is a sequence of one-character strings.  Offsets are the 0-based   *)
(* character offsets of the code; SubSeq is 1-based, hence the +1.         *)
(***************************************************************************)
EXTENDS Integers, Sequences, FiniteSets, TLC

VARIABLES
    rContent,       \* SpecRender: doc.content handed to the renderer
    rAnns,          \* SpecRender: annotations[doc.id], the array held in state
    rOut,           \* SpecRender: the pieces the renderer returned
    rStyles,        \* SpecRender: style.backgroundColor of each piece as rendered
    rPc,            \* SpecRender: "input" before the call, "rendered" after
    user,           \* useAuth().user: the signed-in user's id, or NoUser
    documents,      \* DocumentViewer's documents prop: the ids, in display order
    db,             \* storage: the rows of the annotations table, oldest first
    annotations,    \* DocumentViewer state: document id -> its loaded annotations
    selection,      \* window.getSelection() as the mouse-up just handled found it
                    \* (Unset once another step has been taken)
    mouseUpAt,      \* the document whose container's onMouseUp was just handled
                    \* (0 once another step has been taken)
    selectedText,   \* DocumentViewer state: the candidate range, or NoSelectedText
    showAnnotationForm, \* DocumentViewer state
    note,           \* AnnotationForm state
    color,          \* AnnotationForm state
    picked,         \* a color button of the mounted form has been clicked
    loading,        \* AnnotationForm state
    inserts,        \* annotation inserts awaiting their response
    loads,          \* annotation reloads awaiting their response, oldest first
    latest,         \* how the most recently issued reload ended, and what it read
    lastResponse,   \* the response the step just taken handled (NoResponse otherwise)
    rowBudget,      \* bound of the run: the annotation inserts it may issue
    tDocuments,     \* storage: the rows of the documents table, oldest first
    tConnections,   \* storage: the rows of the connections table, oldest first
    nextId,         \* SpecStorage: the next id the storage generates
    lastDelete,     \* SpecStorage: the row the step just taken deleted, and
                    \* whether a connection referenced it (NoDelete otherwise)
    selectorDocuments,  \* ViewerSelector state documents: the ids listed
    selectedDocs,       \* ViewerSelector state: the ids selected, in order
    selectorLoading,    \* ViewerSelector state loading
    activeView,         \* App state activeView
    screen,             \* the component the page shows in front
    viewDocuments,      \* state documents of the view mounted: the ids loaded
    connections,        \* ConnectionsView state connections: the ids loaded
    sourceDocId,        \* CreateConnectionModal state (0 for '')
    targetDocId,        \* CreateConnectionModal state (0 for '')
    error,              \* state error of the modal form shown
    awaiting,           \* the handlers suspended at an await
    lastRequests        \* the requests the step just taken sent to the storage

rvars == <<rContent, rAnns, rOut, rStyles, rPc>>
vvars == <<user, documents, db, annotations, selection, mouseUpAt, selectedText,
           showAnnotationForm, note, color, picked, loading, inserts, loads,
           latest, lastResponse, rowBudget>>
svars == <<tDocuments, tConnections, nextId, lastDelete>>
lvars == <<selectorDocuments, selectedDocs, selectorLoading>>
cvars == <<activeView, screen, viewDocuments, connections, sourceDocId, targetDocId, error,
           awaiting, lastRequests>>
vars == <<rvars, vvars, svars, lvars, cvars>>

(***************************************************************************)
(* Bounds of the model.                                                    *)
(***************************************************************************)
MaxLen == 3         \* SpecRender: longest content
MaxAnns == 2        \* SpecRender: most annotations of the rendered document
DocLen == 2         \* the viewer: length of each document's content
MaxInflight == 2    \* the viewer: most reloads awaiting their response
MaxRows == 1        \* Spec: most annotation inserts issued
MaxRowsOverlap == 3 \* SpecOverlap: most annotation inserts issued
MaxDocs == 2        \* SpecMulti: most documents shown side by side
MaxRowsMulti == 1   \* SpecMulti: most annotation inserts issued
MaxColorAnns == 1   \* SpecColor: most annotations of the rendered document
MaxIds == 4         \* SpecStorage: most rows ever inserted
MaxListed == 4      \* SpecSelector: most documents stored
MaxLoaded == 2      \* SpecLoad: most annotations stored
MaxAwaiting == 2    \* the client: most handlers suspended at an await
MaxCreated == 1     \* the client: most rows inserted

NoAnn == 0          \* "no annotation" on a plain piece (segment.annotation undefined)

Min(a, b) == IF a <= b THEN a ELSE b
Max(a, b) == IF a >= b THEN a ELSE b

\* The characters documents are written with; " " is the whitespace character.
Letters == <<"a", " ", "b">>
Whitespace == {" "}

\* The sample content of length n whose first character is Letters[k].
TextOf(n, k) == [i \in 1..n |-> Letters[((i + k - 2) % Len(Letters)) + 1]]

RECURSIVE Concat(_)
Concat(seqs) == IF seqs = <<>> THEN <<>> ELSE Head(seqs) \o Concat(Tail(seqs))

(***************************************************************************)
(* String.prototype.substring(start, end): each argument is clamped to     *)
(* [0, length] and the two are swapped when start > end.  It never throws. *)
(***************************************************************************)
ClampIndex(s, i) == Max(0, Min(i, Len(s)))
SubLo(s, a, b) == Min(ClampIndex(s, a), ClampIndex(s, b))
SubHi(s, a, b) == Max(ClampIndex(s, a), ClampIndex(s, b))

\* Faulty variant of Substring: a slice that trusts its arguments: b - a characters from offset a,
\* reading past either end of s ("?" stands for what lies there).
SubstringUnclamped(s, a, b) ==
    [i \in 1..Max(0, b - a) |-> IF a + i \in 1..Len(s) THEN s[a + i] ELSE "?"]

Substring(s, a, b) == SubSeq(s, SubLo(s, a, b) + 1, SubHi(s, a, b))

(***************************************************************************)
(* Array.prototype.sort((a, b) => a.position_start - b.position_start):    *)
(* a stable sort, ascending by position_start.                             *)
(***************************************************************************)
\* Faulty variant of InsertByStart: a sort that is not stable, placing an
\* annotation before those already sorted that share its position_start.
InsertByStartBeforeTies(sorted, ann) ==
    LET k == Cardinality({i \in 1..Len(sorted) :
                             sorted[i].position_start < ann.position_start})
    IN  SubSeq(sorted, 1, k) \o <<ann>> \o SubSeq(sorted, k + 1, Len(sorted))

RECURSIVE InsertByStart(_, _)
InsertByStart(sorted, ann) ==
    IF sorted = <<>> THEN <<ann>>
    ELSE IF sorted[Len(sorted)].position_start <= ann.position_start
         THEN Append(sorted, ann)
         ELSE Append(InsertByStart(SubSeq(sorted, 1, Len(sorted) - 1), ann),
                     sorted[Len(sorted)])

RECURSIVE SortByStart(_)
SortByStart(anns) ==
    IF anns = <<>> THEN <<>>
    ELSE InsertByStart(SortByStart(SubSeq(anns, 1, Len(anns) - 1)), anns[Len(anns)])

(***************************************************************************)
(* A piece of the rendered document.  text, highlighted and annotation are *)
(* the fields of the code's segment; lo and hi are ghost fields: the slice *)
(* content[lo:hi] that substring took the text from.                       *)
(***************************************************************************)
Piece(content, a, b, hl, annId) ==
    [text |-> Substring(content, a, b), highlighted |-> hl, annotation |-> annId,
     lo |-> SubLo(content, a, b), hi |-> SubHi(content, a, b)]

\* Faulty variant of PiecesFor: the plain piece is pushed without the test
\* ann.position_start > lastIndex.
PiecesForAlwaysPlain(content, ann, lastIndex) ==
    <<Piece(content, lastIndex, ann.position_start, FALSE, NoAnn),
      Piece(content, ann.position_start, ann.position_end, TRUE, ann.id)>>

\* The body of highlights.forEach: the pieces pushed for one annotation.
PiecesFor(content, ann, lastIndex) ==
    (IF ann.position_start > lastIndex
     THEN <<Piece(content, lastIndex, ann.position_start, FALSE, NoAnn)>>
     ELSE <<>>)
    \o <<Piece(content, ann.position_start, ann.position_end, TRUE, ann.id)>>

\* lastIndex after the annotation was handled.
NextLastIndex(ann, lastIndex) == ann.position_end

\* lastIndex after the first n of the sorted annotations.
RECURSIVE LastIndexAfter(_, _)
LastIndexAfter(highlights, n) ==
    IF n = 0 THEN 0
    ELSE NextLastIndex(highlights[n], LastIndexAfter(highlights, n - 1))

RECURSIVE LoopPieces(_, _, _)
LoopPieces(content, highlights, n) ==
    IF n = 0 THEN <<>>
    ELSE LoopPieces(content, highlights, n - 1)
         \o PiecesFor(content, highlights[n], LastIndexAfter(highlights, n - 1))

\* The plain piece pushed after the loop.
TrailingPieces(content, lastIndex) ==
    IF lastIndex < Len(content)
    THEN <<Piece(content, lastIndex, Len(content), FALSE, NoAnn)>>
    ELSE <<>>

\* The early return of doc.content, which React shows as one text node.
PlainContent(content) == <<Piece(content, 0, Len(content), FALSE, NoAnn)>>

\* The segments built when the document has annotations.
Segments(content, docAnnotations) ==
    LET highlights == SortByStart(docAnnotations)
    IN  LoopPieces(content, highlights, Len(highlights))
        \o TrailingPieces(content, LastIndexAfter(highlights, Len(highlights)))

\* Faulty variant of the renderer: no early return for a document without
\* annotations.
RenderWithoutEarlyReturn(content, docAnnotations) == Segments(content, docAnnotations)

renderDocumentWithHighlights(content, docAnnotations) ==
    IF Len(docAnnotations) = 0
    THEN PlainContent(content)
    ELSE Segments(content, docAnnotations)

(***************************************************************************)
(* getHighlightColor.  colors is an object literal, so colors[color] finds *)
(* the five own properties and, for any other name, what Object.prototype  *)
(* holds under that name.  A value is a string, undefined, or an object    *)
(* (the functions of Object.prototype; value then holds the member's name).*)
(***************************************************************************)
Colors == {"yellow", "green", "blue", "pink", "purple"}

StringValue(str) == [kind |-> "string", value |-> str]
Undefined == [kind |-> "undefined", value |-> ""]
InheritedValue(name) == [kind |-> "object", value |-> name]

\* const colors: Record<string, string> = { yellow: '#fef08a', ... }
OwnColors ==
    [c \in Colors |->
        CASE c = "yellow" -> StringValue("#fef08a")
          [] c = "green"  -> StringValue("#bbf7d0")
          [] c = "blue"   -> StringValue("#bfdbfe")
          [] c = "pink"   -> StringValue("#fbcfe8")
          [] c = "purple" -> StringValue("#e9d5ff")]

\* The members every object literal inherits from Object.prototype.
ObjectPrototypeKeys ==
    {"constructor", "toString", "toLocaleString", "valueOf", "hasOwnProperty",
     "isPrototypeOf", "propertyIsEnumerable", "__proto__"}

\* colors[name]
ColorsLookup(name) ==
    IF name \in Colors THEN OwnColors[name]
    ELSE IF name \in ObjectPrototypeKeys THEN InheritedValue(name)
    ELSE Undefined

\* The operand of || counts as true.
Truthy(v) == ~(v.kind = "undefined" \/ (v.kind = "string" /\ v.value = ""))

\* return colors[color] || colors.yellow
getHighlightColor(name) ==
    IF Truthy(ColorsLookup(name)) THEN ColorsLookup(name) ELSE ColorsLookup("yellow")

\* A color column that is null (the column is nullable), read as a name.
NullColor == "null"

\* segment.annotation?.color || 'yellow'
ColorOrYellow(name) == IF name \in {NullColor, ""} THEN "yellow" ELSE name

\* A piece that is not a <mark> has no backgroundColor.
NoStyle == [kind |-> "none", value |-> ""]

\* segments.map(...): the backgroundColor of each rendered piece.
MarkStyles(pieces, anns) ==
    [i \in 1..Len(pieces) |->
        IF pieces[i].highlighted
        THEN LET ann == CHOOSE a \in {anns[k] : k \in 1..Len(anns)} :
                            a.id = pieces[i].annotation
             IN  getHighlightColor(ColorOrYellow(ann.color))
        ELSE NoStyle]

\* The text of the rendered pieces, in order: the text of the container.
TextOfPieces(pieces) == Concat([i \in 1..Len(pieces) |-> pieces[i].text])

(***************************************************************************)
(* The DocumentViewer component, mounted with its documents prop.          *)
(***************************************************************************)
NoUser == "none"
DocIds == 1..Max(MaxDocs, MaxListed)

\* doc.content of document d.
Content(d) == TextOf(DocLen, d)

\* selectedText = null
NoSelectedText == [text |-> <<>>, docId |-> 0, start |-> 0, end |-> 0]

\* The window selection.  A range runs from offset so of the container of
\* documents[sd] to offset eo of the container of documents[ed], sd <= ed.
Range(sd, so, ed, eo) == [kind |-> "range", sd |-> sd, so |-> so, ed |-> ed, eo |-> eo]
NoSelection == [kind |-> "null", sd |-> 0, so |-> 0, ed |-> 0, eo |-> 0]
Unset == [kind |-> "unset", sd |-> 0, so |-> 0, ed |-> 0, eo |-> 0]

\* The state of an AnnotationForm as it mounts (and while none is mounted).
FormDefaults ==
    /\ note' = ""
    /\ color' = "yellow"
    /\ picked' = FALSE
    /\ loading' = FALSE

\* The response of an insert or a reload as its handler meets it: ok with
\* data, not ok with an error; live when the component that awaits it is
\* still mounted.
Response(request, ok, live) == [request |-> request, ok |-> ok, live |-> live]

\* The step taken handled no response.
NoResponse == Response("none", FALSE, FALSE)

\* The step taken is not a mouse-up on a container.
NoMouseUp ==
    /\ selection' = Unset
    /\ mouseUpAt' = 0

NotRead == 0 - 1    \* a reload the storage has not run yet

RemoveAt(seq, k) == SubSeq(seq, 1, k - 1) \o SubSeq(seq, k + 1, Len(seq))

\* The pieces and the text of the container <div id="doc-d">.
ContainerPieces(d) == renderDocumentWithHighlights(Content(d), annotations[d])
ContainerText(d) == TextOfPieces(ContainerPieces(d))

\* The text of a document's card around its container: the header (title,
\* tags, annotation count) and the footer (the hint line), one character each.
CardHeader == <<"H">>
CardFooter == <<"F">>

CardText(i) == CardHeader \o ContainerText(documents[i]) \o CardFooter

RECURSIVE CardsText(_, _)
CardsText(i, j) == IF i > j THEN <<>> ELSE CardText(i) \o CardsText(i + 1, j)

\* The text of the page from offset o of container i to offset q of container j.
TextBetween(i, o, j, q) ==
    IF i = j
    THEN SubSeq(ContainerText(documents[i]), o + 1, q)
    ELSE SubSeq(ContainerText(documents[i]), o + 1, Len(ContainerText(documents[i])))
         \o CardFooter \o CardsText(i + 1, j - 1) \o CardHeader
         \o SubSeq(ContainerText(documents[j]), 1, q)

\* selection.toString(): the text of the selected range.
SelectionString(sel) == TextBetween(sel.sd, sel.so, sel.ed, sel.eo)

\* preCaretRange.toString(): selectNodeContents(container) and then
\* setEnd(range.startContainer, range.startOffset).  setEnd on a point before
\* the range's start collapses the range onto that point.
PreCaretString(i, sel) ==
    IF sel.sd < i THEN <<>> ELSE TextBetween(i, 0, sel.sd, sel.so)

\* String.prototype.trim()
RECURSIVE TrimStart(_)
TrimStart(text) ==
    IF text # <<>> /\ Head(text) \in Whitespace THEN TrimStart(Tail(text)) ELSE text

RECURSIVE TrimEnd(_)
TrimEnd(text) ==
    IF text # <<>> /\ text[Len(text)] \in Whitespace
    THEN TrimEnd(SubSeq(text, 1, Len(text) - 1))
    ELSE text

Trim(text) == TrimEnd(TrimStart(text))

\* Faulty variant of the test below: without trim().
SelectionRejectedUntrimmed(sel) ==
    sel.kind # "range" \/ SelectionString(sel) = <<>>

\* !selection || selection.toString().trim() === ''
SelectionRejected(sel) ==
    sel.kind # "range" \/ Trim(SelectionString(sel)) = <<>>

IndexOf(d) == CHOOSE i \in 1..Len(documents) : documents[i] = d

\* The candidate handleTextSelection computes for a selection it accepts.
Candidate(docId, sel) ==
    LET text == SelectionString(sel)
        start == Len(PreCaretString(IndexOf(docId), sel))
    IN  [text |-> text, docId |-> docId, start |-> start, end |-> start + Len(text)]

handleTextSelection(docId, sel) ==
    IF SelectionRejected(sel)
    THEN UNCHANGED <<selectedText, showAnnotationForm, note, color, picked, loading>>
    ELSE /\ selectedText' = Candidate(docId, sel)
         /\ showAnnotationForm' = TRUE
         /\ FormDefaults

\* The ranges the user can select in the page as it is rendered.
RangesBetween(i, j) ==
    {Range(i, o, j, q) : o \in 0..Len(ContainerText(documents[i])),
                         q \in 0..Len(ContainerText(documents[j]))}

Selections ==
    {r \in UNION {RangesBetween(i, j) : i \in 1..Len(documents), j \in 1..Len(documents)} :
        r.sd < r.ed \/ (r.sd = r.ed /\ r.so <= r.eo)}

\* The containers a mouse-up can come from: one in which the selection ends
\* (either end, as the user may drag backward); any, when nothing is selected.
EventDocs(sel) ==
    IF sel.kind = "range"
    THEN {documents[sel.sd], documents[sel.ed]}
    ELSE {documents[i] : i \in 1..Len(documents)}

\* {showAnnotationForm && selectedText && <AnnotationForm .../>}
FormShown == showAnnotationForm /\ selectedText # NoSelectedText

\* onMouseUp of a container.  The form, once shown, overlays the whole page
\* (fixed inset-0), so the containers get mouse-ups only while it is hidden.
MouseUp(docId, sel) ==
    /\ ~FormShown
    /\ docId \in EventDocs(sel)
    /\ selection' = sel
    /\ mouseUpAt' = docId
    /\ handleTextSelection(docId, sel)
    /\ lastResponse' = NoResponse
    /\ UNCHANGED <<rowBudget, user, documents, db, annotations, inserts, loads, latest>>

\* An AnnotationForm that unmounts leaves its pending inserts without a form.
Orphaned(pending) == [k \in 1..Len(pending) |-> [pending[k] EXCEPT !.live = FALSE]]

\* A reload as issued.  saved is a ghost field: the id of the row whose save
\* issued the reload, 0 for the reload of the mount effect.
IssuedLoad(saved) == [snap |-> NotRead, saved |-> saved]

\* The most recently issued reload is awaiting its response.
LatestPending == [outcome |-> "pending", snap |-> NotRead]

\* Faulty variant of IssueLoad: onSave without its loadAnnotations().
IssueLoadNever(saved) == UNCHANGED <<loads, latest>>

\* loadAnnotations(), up to the await: the request is issued.
IssueLoad(saved) ==
    IF user = NoUser
    THEN UNCHANGED <<loads, latest>>
    ELSE /\ loads' = Append(loads, IssuedLoad(saved))
         /\ latest' = LatestPending

\* The reload is the most recently issued one: every save issues one.
Newest(load) == load.saved = Len(db)

\* The response of reload j has arrived, with data or with an error.
Answered(j, outcome) ==
    latest' = IF Newest(loads[j])
              THEN [outcome |-> outcome, snap |-> loads[j].snap]
              ELSE latest

\* Faulty variant of CloseForm: onClose without setSelectedText(null).
CloseFormKeepingCandidate ==
    /\ FormShown
    /\ showAnnotationForm' = FALSE
    /\ FormDefaults
    /\ inserts' = Orphaned(inserts)
    /\ UNCHANGED <<rowBudget, user, documents, db, annotations, selectedText,
                   loads, latest>>
    /\ NoMouseUp
    /\ lastResponse' = NoResponse

\* onClose of the form (the X and the Cancel button).
CloseForm ==
    /\ FormShown
    /\ showAnnotationForm' = FALSE
    /\ selectedText' = NoSelectedText
    /\ FormDefaults
    /\ inserts' = Orphaned(inserts)
    /\ UNCHANGED <<rowBudget, user, documents, db, annotations, loads, latest>>
    /\ NoMouseUp
    /\ lastResponse' = NoResponse

\* Faulty variant of PickColor: setColor(c.bg), the display value of the
\* button instead of its name.
PickColorBg(c) ==
    /\ FormShown
    /\ c \in Colors
    /\ color' = OwnColors[c].value
    /\ picked' = TRUE
    /\ UNCHANGED <<rowBudget, user, documents, db, annotations, selectedText,
                   showAnnotationForm, note, loading, inserts, loads, latest>>
    /\ NoMouseUp
    /\ lastResponse' = NoResponse

\* onClick of a color button of the form: setColor(c.name).
PickColor(c) ==
    /\ FormShown
    /\ c \in Colors
    /\ color' = c
    /\ picked' = TRUE
    /\ UNCHANGED <<rowBudget, user, documents, db, annotations, selectedText,
                   showAnnotationForm, note, loading, inserts, loads, latest>>
    /\ NoMouseUp
    /\ lastResponse' = NoResponse

\* The notes a user types.
Notes == {"", "n"}

\* onChange of the textarea of the form: setNote(e.target.value).
TypeNote(text) ==
    /\ FormShown
    /\ text \in Notes
    /\ text # note
    /\ note' = text
    /\ UNCHANGED <<rowBudget, user, documents, db, annotations, selectedText,
                   showAnnotationForm, color, picked, loading, inserts, loads, latest>>
    /\ NoMouseUp
    /\ lastResponse' = NoResponse

\* The row handleSubmit inserts.  picked is a ghost field: a color button
\* had been clicked in the form when it was submitted.
InsertPayload ==
    [user_id |-> user,
     document_id |-> selectedText.docId,
     content |-> note,
     highlighted_text |-> selectedText.text,
     position_start |-> selectedText.start,
     position_end |-> selectedText.end,
     color |-> color,
     picked |-> picked]

\* handleSubmit, up to the await.  The submit button is disabled while loading.
Submit ==
    /\ FormShown
    /\ ~loading
    /\ Len(db) + Len(inserts) < rowBudget
    /\ IF user = NoUser
       THEN UNCHANGED <<loading, inserts>>
       ELSE /\ loading' = TRUE
            /\ inserts' = Append(inserts, [row |-> InsertPayload, live |-> TRUE])
    /\ UNCHANGED <<rowBudget, user, documents, db, annotations, selectedText,
                   showAnnotationForm, note, color, picked, loads, latest>>
    /\ NoMouseUp
    /\ lastResponse' = NoResponse

\* The row as the table stores it: the id is generated.
StoredRow(row, id) ==
    [id |-> id,
     user_id |-> row.user_id,
     document_id |-> row.document_id,
     content |-> row.content,
     highlighted_text |-> row.highlighted_text,
     position_start |-> row.position_start,
     position_end |-> row.position_end,
     color |-> row.color,
     picked |-> row.picked]

\* The insert succeeded: handleSubmit resumes with onSave(), which hides the
\* form, drops the candidate and reloads; then finally setLoading(false).
InsertOk(k) ==
    /\ k \in 1..Len(inserts)
    /\ Len(loads) < MaxInflight
    /\ db' = Append(db, StoredRow(inserts[k].row, Len(db) + 1))
    /\ showAnnotationForm' = FALSE
    /\ selectedText' = NoSelectedText
    /\ IssueLoad(Len(db) + 1)
    /\ FormDefaults
    /\ inserts' = Orphaned(RemoveAt(inserts, k))
    /\ UNCHANGED <<rowBudget, user, documents, annotations>>
    /\ NoMouseUp
    /\ lastResponse' = Response("insert", TRUE, inserts[k].live)

\* Faulty variant of InsertFail: the catch block closing the form as onSave
\* does (hide the form, drop the candidate), without the reload.
InsertFailClosingForm(k) ==
    /\ k \in 1..Len(inserts)
    /\ showAnnotationForm' = FALSE
    /\ selectedText' = NoSelectedText
    /\ FormDefaults
    /\ inserts' = Orphaned(RemoveAt(inserts, k))
    /\ UNCHANGED <<rowBudget, user, documents, db, annotations, loads, latest>>
    /\ NoMouseUp
    /\ lastResponse' = Response("insert", FALSE, inserts[k].live)

\* The insert failed: console.error, then finally setLoading(false), which
\* reaches the form only if it is still mounted.
InsertFail(k) ==
    /\ k \in 1..Len(inserts)
    /\ loading' = IF inserts[k].live THEN FALSE ELSE loading
    /\ inserts' = RemoveAt(inserts, k)
    /\ UNCHANGED <<rowBudget, user, documents, db, annotations, selectedText,
                   showAnnotationForm, note, color, picked, loads, latest>>
    /\ NoMouseUp
    /\ lastResponse' = Response("insert", FALSE, inserts[k].live)

\* The storage runs the select of a reload over the rows it holds then.
LoadRead(j) ==
    /\ j \in 1..Len(loads)
    /\ loads[j].snap = NotRead
    /\ loads' = [loads EXCEPT ![j].snap = Len(db)]
    /\ UNCHANGED <<latest, rowBudget, user, documents, db, annotations, selectedText,
                   showAnnotationForm, note, color, picked, loading, inserts>>
    /\ NoMouseUp
    /\ lastResponse' = NoResponse

\* .in('document_id', docIds).eq('user_id', user.id) over the first n rows.
SelectedRows(n) ==
    SelectSeq(SubSeq(db, 1, n),
              LAMBDA r : /\ \E i \in 1..Len(documents) : documents[i] = r.document_id
                         /\ r.user_id = user)

\* Faulty variant of Grouped: a reduce that pushes every row under the key of
\* the first document displayed.
GroupedUnderFirstDocument(data) ==
    [d \in DocIds |-> IF documents # <<>> /\ documents[1] = d THEN data ELSE <<>>]

\* data.reduce(...): the rows grouped by document_id, in the order of data.
Grouped(data) ==
    [d \in DocIds |-> SelectSeq(data, LAMBDA r : r.document_id = d)]

\* The groups once the component has rendered again: sort() has reordered
\* the array of every displayed document in place.
AfterRender(groups) ==
    [d \in DocIds |->
        IF \E i \in 1..Len(documents) : documents[i] = d
        THEN SortByStart(groups[d])
        ELSE groups[d]]

\* The response of a reload arrives with data: setAnnotations(grouped).
LoadOk(j) ==
    /\ j \in 1..Len(loads)
    /\ loads[j].snap # NotRead
    /\ annotations' = AfterRender(Grouped(SelectedRows(loads[j].snap)))
    /\ loads' = RemoveAt(loads, j)
    /\ Answered(j, "ok")
    /\ UNCHANGED <<rowBudget, user, documents, db, selectedText,
                   showAnnotationForm, note, color, picked, loading, inserts>>
    /\ NoMouseUp
    /\ lastResponse' = Response("load", TRUE, TRUE)

\* Faulty variant of LoadFail: the error branch emptying the display with
\* setAnnotations({}).
LoadFailClearing(j) ==
    /\ j \in 1..Len(loads)
    /\ annotations' = [d \in DocIds |-> <<>>]
    /\ loads' = RemoveAt(loads, j)
    /\ Answered(j, "failed")
    /\ UNCHANGED <<rowBudget, user, documents, db, selectedText,
                   showAnnotationForm, note, color, picked, loading, inserts>>
    /\ NoMouseUp
    /\ lastResponse' = Response("load", FALSE, TRUE)

\* The response of a reload arrives with an error: console.error, return.
LoadFail(j) ==
    /\ j \in 1..Len(loads)
    /\ loads' = RemoveAt(loads, j)
    /\ Answered(j, "failed")
    /\ UNCHANGED <<rowBudget, user, documents, db, annotations, selectedText,
                   showAnnotationForm, note, color, picked, loading, inserts>>
    /\ NoMouseUp
    /\ lastResponse' = Response("load", FALSE, TRUE)

\* A row of the documents table, reduced to its keys.
DocumentRow(id, owner) == [id |-> id, user_id |-> owner]

\* The step taken deleted no row.
NoDelete == [table |-> "none", id |-> 0, referenced |-> FALSE]

\* The storage as the viewer finds it: the documents shown are stored, and
\* no connection is.
StoredDocuments(docs) ==
    /\ tDocuments = [i \in 1..Len(docs) |-> DocumentRow(docs[i], "u1")]
    /\ tConnections = <<>>
    /\ nextId = 0
    /\ lastDelete = NoDelete

\* ViewerSelector as useState() creates it.
SelectorMounting ==
    /\ selectorDocuments = <<>>
    /\ selectedDocs = <<>>
    /\ selectorLoading = TRUE

\* ViewerSelector once its list is loaded and docs are selected: it renders
\* DocumentViewer with documents = selectedDocs.
SelectorShowing(docs) ==
    /\ selectorDocuments = docs
    /\ selectedDocs = docs
    /\ selectorLoading = FALSE

\* The pages of the application outside DocumentViewer are not followed.
ClientUnobserved ==
    /\ activeView = "documents"
    /\ screen = "unobserved"
    /\ viewDocuments = <<>>
    /\ connections = <<>>
    /\ sourceDocId = 0
    /\ targetDocId = 0
    /\ error = ""
    /\ awaiting = <<>>
    /\ lastRequests = {}

RenderIdle ==
    /\ rContent = <<>>
    /\ rAnns = <<>>
    /\ rOut = <<>>
    /\ rStyles = <<>>
    /\ rPc = "off"

\* DocumentViewer after its first render and its mount effect, which has
\* issued the first loadAnnotations(): Mounted(docs, rows) for documents =
\* docs, in a run that may issue rows inserts.
Mounted(docs, rows) ==
    /\ RenderIdle
    /\ ClientUnobserved
    /\ StoredDocuments(docs)
    /\ SelectorShowing(docs)
    /\ rowBudget = rows
    /\ user = "u1"
    /\ documents = docs
    /\ db = <<>>
    /\ annotations = [d \in DocIds |-> <<>>]
    /\ selection = Unset
    /\ mouseUpAt = 0
    /\ selectedText = NoSelectedText
    /\ showAnnotationForm = FALSE
    /\ note = ""
    /\ color = "yellow"
    /\ picked = FALSE
    /\ loading = FALSE
    /\ inserts = <<>>
    /\ loads = <<IssuedLoad(0)>>
    /\ latest = LatestPending
    /\ lastResponse = NoResponse

Next ==
    \/ \E sel \in Selections \cup {NoSelection} : \E d \in EventDocs(sel) :
          MouseUp(d, sel) /\ UNCHANGED <<rvars, svars, lvars, cvars>>
    \/ CloseForm /\ UNCHANGED <<rvars, svars, lvars, cvars>>
    \/ Submit /\ UNCHANGED <<rvars, svars, lvars, cvars>>
    \/ \E k \in 1..Len(inserts) : InsertOk(k) /\ UNCHANGED <<rvars, svars, lvars, cvars>>
    \/ \E k \in 1..Len(inserts) : InsertFail(k) /\ UNCHANGED <<rvars, svars, lvars, cvars>>
    \/ \E j \in 1..Len(loads) : LoadRead(j) /\ UNCHANGED <<rvars, svars, lvars, cvars>>
    \/ \E j \in 1..Len(loads) : LoadOk(j) /\ UNCHANGED <<rvars, svars, lvars, cvars>>
    \/ \E j \in 1..Len(loads) : LoadFail(j) /\ UNCHANGED <<rvars, svars, lvars, cvars>>

\* Spec: the viewer showing one document, its user leaving the color of the
\* form as it is.
Init == Mounted(<<1>>, MaxRows)

Spec == Init /\ [][Next]_vars

\* SpecOverlap: the viewer showing one document, in runs long enough to
\* store annotations that overlap and then select over their view.
InitOverlap == Mounted(<<1>>, MaxRowsOverlap)

SpecOverlap == InitOverlap /\ [][Next]_vars

\* SpecMulti: the viewer showing several documents side by side.
InitMulti == \E n \in 2..MaxDocs : Mounted([i \in 1..n |-> i], MaxRowsMulti)

SpecMulti == InitMulti /\ [][Next]_vars

(***************************************************************************)
(* SpecForm: one AnnotationForm, from the mouse-up on a fresh view that    *)
(* mounts it (the first reload still pending) until it unmounts and the    *)
(* requests it left have been answered.                                    *)
(***************************************************************************)
InitForm ==
    /\ RenderIdle
    /\ ClientUnobserved
    /\ StoredDocuments(<<1>>)
    /\ SelectorShowing(<<1>>)
    /\ rowBudget = MaxRows
    /\ user = "u1"
    /\ documents = <<1>>
    /\ db = <<>>
    /\ annotations = [d \in DocIds |-> <<>>]
    /\ inserts = <<>>
    /\ loads = <<IssuedLoad(0)>>
    /\ latest = LatestPending
    /\ lastResponse = NoResponse
    /\ mouseUpAt = 1
    /\ \E sel \in Selections :
         /\ ~SelectionRejected(sel)
         /\ selection = sel
         /\ selectedText = Candidate(1, sel)
    /\ showAnnotationForm = TRUE
    /\ note = ""
    /\ color = "yellow"
    /\ picked = FALSE
    /\ loading = FALSE

NextForm ==
    \/ \E c \in Colors : PickColor(c) /\ UNCHANGED <<rvars, svars, lvars, cvars>>
    \/ \E text \in Notes : TypeNote(text) /\ UNCHANGED <<rvars, svars, lvars, cvars>>
    \/ CloseForm /\ UNCHANGED <<rvars, svars, lvars, cvars>>
    \/ Submit /\ UNCHANGED <<rvars, svars, lvars, cvars>>
    \/ \E k \in 1..Len(inserts) : InsertOk(k) /\ UNCHANGED <<rvars, svars, lvars, cvars>>
    \/ \E k \in 1..Len(inserts) : InsertFail(k) /\ UNCHANGED <<rvars, svars, lvars, cvars>>
    \/ \E j \in 1..Len(loads) : LoadRead(j) /\ UNCHANGED <<rvars, svars, lvars, cvars>>
    \/ \E j \in 1..Len(loads) : LoadOk(j) /\ UNCHANGED <<rvars, svars, lvars, cvars>>
    \/ \E j \in 1..Len(loads) : LoadFail(j) /\ UNCHANGED <<rvars, svars, lvars, cvars>>

SpecForm == InitForm /\ [][NextForm]_vars

(***************************************************************************)
(* SpecStorage: the documents, annotations and connections tables under    *)
(* the foreign keys of the schema, with the rows the signed-in user        *)
(* inserts and deletes.  Rows are reduced to their keys, ids are generated *)
(* and never reused.  An insert the foreign keys reject, and a delete      *)
(* that finds no row of the user, change nothing.                          *)
(***************************************************************************)
Null == 0   \* a null reference

Ids(rows) == {rows[i].id : i \in 1..Len(rows)}

\* A row of the connections table, reduced to its keys.
ConnectionRow(id, owner, sd, td, sa, ta) ==
    [id |-> id, user_id |-> owner,
     source_document_id |-> sd, target_document_id |-> td,
     source_annotation_id |-> sa, target_annotation_id |-> ta]

\* The payload of an annotation inserted on document d.
AnnotationPayload(d) ==
    [user_id |-> user, document_id |-> d, content |-> "",
     highlighted_text |-> <<"a">>, position_start |-> 0, position_end |-> 1,
     color |-> "yellow", picked |-> FALSE]

\* All of the viewer but the annotations table stays as it is.
ViewerUnchanged ==
    UNCHANGED <<user, documents, annotations, selection, mouseUpAt, selectedText,
                showAnnotationForm, note, color, picked, loading, inserts, loads,
                latest, lastResponse, rowBudget>>

\* Faulty variant of AnnotationsDeleted: source_annotation_id and
\* target_annotation_id declared ON DELETE CASCADE.
AnnotationsDeletedCascading(conns, gone) ==
    SelectSeq(conns, LAMBDA c : /\ c.source_annotation_id \notin gone
                                /\ c.target_annotation_id \notin gone)

\* source_annotation_id, target_annotation_id: REFERENCES annotations ON
\* DELETE SET NULL.  The connections once the annotations gone are deleted.
AnnotationsDeleted(conns, gone) ==
    [i \in 1..Len(conns) |->
        [conns[i] EXCEPT
            !.source_annotation_id = IF @ \in gone THEN Null ELSE @,
            !.target_annotation_id = IF @ \in gone THEN Null ELSE @]]

\* source_document_id, target_document_id: REFERENCES documents ON DELETE
\* CASCADE.  The connections once document d is deleted.
DocumentDeleted(conns, d) ==
    SelectSeq(conns, LAMBDA c : c.source_document_id # d /\ c.target_document_id # d)

\* insert into documents (UploadModal.handleSubmit)
InsertDocumentRow ==
    /\ nextId <= MaxIds
    /\ tDocuments' = Append(tDocuments, DocumentRow(nextId, user))
    /\ nextId' = nextId + 1
    /\ lastDelete' = NoDelete
    /\ UNCHANGED <<db, tConnections>>
    /\ ViewerUnchanged

\* delete from documents where id = d (deleteDocument): the annotations of
\* the document go with it (document_id: ON DELETE CASCADE), and with them
\* the references connections hold to them.
DeleteDocumentRow(d) ==
    /\ \E i \in 1..Len(tDocuments) : tDocuments[i].id = d /\ tDocuments[i].user_id = user
    /\ tDocuments' = SelectSeq(tDocuments, LAMBDA r : r.id # d)
    /\ db' = SelectSeq(db, LAMBDA a : a.document_id # d)
    /\ tConnections' =
          DocumentDeleted(AnnotationsDeleted(tConnections,
                              {a \in Ids(db) : \E k \in 1..Len(db) :
                                    db[k].id = a /\ db[k].document_id = d}), d)
    /\ lastDelete' = [table |-> "documents", id |-> d,
                      referenced |-> \E i \in 1..Len(tConnections) :
                                        \/ tConnections[i].source_document_id = d
                                        \/ tConnections[i].target_document_id = d]
    /\ UNCHANGED nextId
    /\ ViewerUnchanged

\* insert into annotations (AnnotationForm.handleSubmit), document_id = d
InsertAnnotationRow(d) ==
    /\ nextId <= MaxIds
    /\ d \in Ids(tDocuments)
    /\ db' = Append(db, StoredRow(AnnotationPayload(d), nextId))
    /\ nextId' = nextId + 1
    /\ lastDelete' = NoDelete
    /\ UNCHANGED <<tDocuments, tConnections>>
    /\ ViewerUnchanged

\* delete from annotations where id = a
DeleteAnnotationRow(a) ==
    /\ \E k \in 1..Len(db) : db[k].id = a /\ db[k].user_id = user
    /\ db' = SelectSeq(db, LAMBDA r : r.id # a)
    /\ tConnections' = AnnotationsDeleted(tConnections, {a})
    /\ lastDelete' = [table |-> "annotations", id |-> a,
                      referenced |-> \E i \in 1..Len(tConnections) :
                                        \/ tConnections[i].source_annotation_id = a
                                        \/ tConnections[i].target_annotation_id = a]
    /\ UNCHANGED <<tDocuments, nextId>>
    /\ ViewerUnchanged

\* insert into connections (CreateConnectionModal.handleSubmit inserts the
\* two documents; the annotation columns are open to any client)
InsertConnectionRow(sd, td, sa, ta) ==
    /\ nextId <= MaxIds
    /\ sd \in Ids(tDocuments)
    /\ td \in Ids(tDocuments)
    /\ sa \in Ids(db) \cup {Null}
    /\ ta \in Ids(db) \cup {Null}
    /\ tConnections' = Append(tConnections, ConnectionRow(nextId, user, sd, td, sa, ta))
    /\ nextId' = nextId + 1
    /\ lastDelete' = NoDelete
    /\ UNCHANGED <<db, tDocuments>>
    /\ ViewerUnchanged

\* delete from connections where id = c (deleteConnection)
DeleteConnectionRow(c) ==
    /\ \E i \in 1..Len(tConnections) :
          tConnections[i].id = c /\ tConnections[i].user_id = user
    /\ tConnections' = SelectSeq(tConnections, LAMBDA r : r.id # c)
    /\ lastDelete' = [table |-> "connections", id |-> c, referenced |-> FALSE]
    /\ UNCHANGED <<db, tDocuments, nextId>>
    /\ ViewerUnchanged

\* The storage before the first row, the user signed in, no viewer mounted.
InitStorage ==
    /\ RenderIdle
    /\ ClientUnobserved
    /\ SelectorMounting
    /\ user = "u1"
    /\ documents = <<>>
    /\ db = <<>>
    /\ annotations = [d \in DocIds |-> <<>>]
    /\ selection = Unset
    /\ mouseUpAt = 0
    /\ selectedText = NoSelectedText
    /\ showAnnotationForm = FALSE
    /\ note = ""
    /\ color = "yellow"
    /\ picked = FALSE
    /\ loading = FALSE
    /\ inserts = <<>>
    /\ loads = <<>>
    /\ latest = LatestPending
    /\ lastResponse = NoResponse
    /\ rowBudget = 0
    /\ tDocuments = <<>>
    /\ tConnections = <<>>
    /\ nextId = 1
    /\ lastDelete = NoDelete

NextStorage ==
    \/ InsertDocumentRow /\ UNCHANGED <<rvars, lvars, cvars>>
    \/ \E d \in 1..MaxIds : DeleteDocumentRow(d) /\ UNCHANGED <<rvars, lvars, cvars>>
    \/ \E d \in 1..MaxIds : InsertAnnotationRow(d) /\ UNCHANGED <<rvars, lvars, cvars>>
    \/ \E a \in 1..MaxIds : DeleteAnnotationRow(a) /\ UNCHANGED <<rvars, lvars, cvars>>
    \/ \E sd, td \in 1..MaxIds, sa, ta \in 0..MaxIds :
          InsertConnectionRow(sd, td, sa, ta) /\ UNCHANGED <<rvars, lvars, cvars>>
    \/ \E c \in 1..MaxIds : DeleteConnectionRow(c) /\ UNCHANGED <<rvars, lvars, cvars>>

SpecStorage == InitStorage /\ [][NextStorage]_vars

(***************************************************************************)
(* SpecRender: the renderer on a content of every length up to MaxLen and  *)
(* every list of up to MaxAnns annotations with offsets from one below 0   *)
(* to one above the length of the content, in every loaded order.          *)
(***************************************************************************)
Offsets(content) == (0 - 1)..(Len(content) + 1)

ColoredAnn(i, s, e, c) ==
    [id |-> i, document_id |-> 1, position_start |-> s, position_end |-> e,
     color |-> c]

\* An annotation with the default of the color column.
RenderAnn(i, s, e) == ColoredAnn(i, s, e, "yellow")

\* No viewer is mounted while the renderer is exercised alone.
ViewerIdle ==
    /\ user = NoUser
    /\ documents = <<>>
    /\ db = <<>>
    /\ annotations = [d \in DocIds |-> <<>>]
    /\ selection = Unset
    /\ mouseUpAt = 0
    /\ selectedText = NoSelectedText
    /\ showAnnotationForm = FALSE
    /\ note = ""
    /\ color = "yellow"
    /\ picked = FALSE
    /\ loading = FALSE
    /\ inserts = <<>>
    /\ loads = <<>>
    /\ latest = LatestPending
    /\ lastResponse = NoResponse
    /\ rowBudget = 0
    /\ StoredDocuments(<<>>)
    /\ ClientUnobserved
    /\ SelectorMounting

InitRender ==
    /\ ViewerIdle
    /\ rPc = "input"
    /\ rOut = <<>>
    /\ rStyles = <<>>
    /\ \E n \in 0..MaxLen : rContent = TextOf(n, 1)
    /\ \E n \in 0..MaxAnns :
         \E s \in [1..n -> Offsets(rContent)], e \in [1..n -> Offsets(rContent)] :
            rAnns = [i \in 1..n |-> RenderAnn(i, s[i], e[i])]

\* One render of the document; sort() reorders the array of the state in place.
RenderDocument ==
    /\ rPc = "input"
    /\ rOut' = renderDocumentWithHighlights(rContent, rAnns)
    /\ rStyles' = MarkStyles(rOut', rAnns)
    /\ rAnns' = IF Len(rAnns) = 0 THEN rAnns ELSE SortByStart(rAnns)
    /\ rPc' = "rendered"
    /\ UNCHANGED <<rContent, vvars, svars, lvars, cvars>>

NextRender == RenderDocument

SpecRender == InitRender /\ [][NextRender]_vars

(***************************************************************************)
(* SpecColor: the renderer on documents whose annotations carry any color  *)
(* the column can hold: the five names of the form, another name, the      *)
(* empty string, null, and names of members of Object.prototype.           *)
(***************************************************************************)
ColorNames == Colors \cup {"orange", "", NullColor, "constructor", "toString"}

InitColor ==
    /\ ViewerIdle
    /\ rPc = "input"
    /\ rOut = <<>>
    /\ rStyles = <<>>
    /\ \E n \in 0..MaxLen : rContent = TextOf(n, 1)
    /\ \E n \in 0..MaxColorAnns :
         \E s \in [1..n -> Offsets(rContent)], e \in [1..n -> Offsets(rContent)],
            c \in [1..n -> ColorNames] :
            rAnns = [i \in 1..n |-> ColoredAnn(i, s[i], e[i], c[i])]

SpecColor == InitColor /\ [][NextRender]_vars

(***************************************************************************)
(* SpecSelector: ViewerSelector from its mount, over every stock of up to  *)
(* MaxListed documents of the signed-in user and of another user, with the *)
(* DocumentViewer it renders; the user of the viewer reads and closes.     *)
(***************************************************************************)
Owners == {"u1", "u2"}

\* .from('documents').select('*').eq('user_id', user.id)
\*     .order('created_at', { ascending: false })
ListedDocuments ==
    LET own == SelectSeq(tDocuments, LAMBDA r : r.user_id = user)
    IN  [i \in 1..Len(own) |-> own[Len(own) + 1 - i].id]

\* selectedDocs.find(d => d.id === doc.id)
IsSelected(doc) == \E i \in 1..Len(selectedDocs) : selectedDocs[i] = doc

\* Faulty variant of toggleDocument: without the test selectedDocs.length < 3.
toggleDocumentUncapped(doc) ==
    IF IsSelected(doc)
    THEN SelectSeq(selectedDocs, LAMBDA d : d # doc)
    ELSE Append(selectedDocs, doc)

\* toggleDocument(doc): the selection it sets.
toggleDocument(doc) ==
    IF IsSelected(doc)
    THEN SelectSeq(selectedDocs, LAMBDA d : d # doc)
    ELSE IF Len(selectedDocs) < 3
         THEN Append(selectedDocs, doc)
         ELSE selectedDocs

\* What ViewerSelector returns: DocumentViewer when a document is selected,
\* else the loading line while loading, else the page with the grid.
ViewerShown == Len(selectedDocs) > 0
GridShown == ~ViewerShown /\ ~selectorLoading

\* const canSelect = selectedDocs.length < 3 || isSelected
CanSelect(doc) == Len(selectedDocs) < 3 \/ IsSelected(doc)

\* DocumentViewer is rendered with documents = docs and mounts (its effect
\* issues loadAnnotations()), or docs is empty and it is not rendered.
ViewerRendered(docs) ==
    /\ documents' = docs
    /\ annotations' = [d \in DocIds |-> <<>>]
    /\ selectedText' = NoSelectedText
    /\ showAnnotationForm' = FALSE
    /\ note' = ""
    /\ color' = "yellow"
    /\ picked' = FALSE
    /\ loading' = FALSE
    /\ inserts' = <<>>
    /\ loads' = IF docs = <<>> \/ user = NoUser THEN <<>> ELSE <<IssuedLoad(0)>>
    /\ latest' = LatestPending
    /\ NoMouseUp
    /\ lastResponse' = NoResponse
    /\ UNCHANGED <<user, db, rowBudget>>

\* The response of loadDocuments() arrives with data.
LoadDocumentsOk ==
    /\ selectorLoading
    /\ selectorDocuments' = ListedDocuments
    /\ selectorLoading' = FALSE
    /\ UNCHANGED <<selectedDocs, vvars>>

\* The response of loadDocuments() arrives with an error: console.error.
LoadDocumentsFail ==
    /\ selectorLoading
    /\ selectorLoading' = FALSE
    /\ UNCHANGED <<selectorDocuments, selectedDocs, vvars>>

\* onClick of the grid's button of doc: canSelect && toggleDocument(doc).
ToggleDocument(doc) ==
    /\ GridShown
    /\ \E i \in 1..Len(selectorDocuments) : selectorDocuments[i] = doc
    /\ CanSelect(doc)
    /\ selectedDocs' = toggleDocument(doc)
    /\ ViewerRendered(selectedDocs')
    /\ UNCHANGED <<selectorDocuments, selectorLoading>>

\* onClose of DocumentViewer: setSelectedDocs([]).
CloseViewer ==
    /\ ViewerShown
    /\ selectedDocs' = <<>>
    /\ ViewerRendered(<<>>)
    /\ UNCHANGED <<selectorDocuments, selectorLoading>>

InitSelector ==
    /\ RenderIdle
    /\ ClientUnobserved
    /\ SelectorMounting
    /\ user = "u1"
    /\ documents = <<>>
    /\ db = <<>>
    /\ annotations = [d \in DocIds |-> <<>>]
    /\ selection = Unset
    /\ mouseUpAt = 0
    /\ selectedText = NoSelectedText
    /\ showAnnotationForm = FALSE
    /\ note = ""
    /\ color = "yellow"
    /\ picked = FALSE
    /\ loading = FALSE
    /\ inserts = <<>>
    /\ loads = <<>>
    /\ latest = LatestPending
    /\ lastResponse = NoResponse
    /\ rowBudget = 0
    /\ \E n \in 0..MaxListed : \E owner \in [1..n -> Owners] :
          tDocuments = [i \in 1..n |-> DocumentRow(i, owner[i])]
    /\ tConnections = <<>>
    /\ nextId = 0
    /\ lastDelete = NoDelete

NextSelector ==
    \/ LoadDocumentsOk /\ UNCHANGED <<rvars, svars, cvars>>
    \/ LoadDocumentsFail /\ UNCHANGED <<rvars, svars, cvars>>
    \/ \E doc \in DocIds : ToggleDocument(doc) /\ UNCHANGED <<rvars, svars, cvars>>
    \/ CloseViewer /\ UNCHANGED <<rvars, svars, cvars>>
    \/ \E j \in 1..Len(loads) : LoadRead(j) /\ UNCHANGED <<rvars, svars, lvars, cvars>>
    \/ \E j \in 1..Len(loads) : LoadOk(j) /\ UNCHANGED <<rvars, svars, lvars, cvars>>
    \/ \E j \in 1..Len(loads) : LoadFail(j) /\ UNCHANGED <<rvars, svars, lvars, cvars>>

SpecSelector == InitSelector /\ [][NextSelector]_vars

(***************************************************************************)
(* SpecToggle: the handlers of ViewerSelector that set selectedDocs,       *)
(* toggleDocument on a listed document and setSelectedDocs([]), called in  *)
(* any order, whatever ViewerSelector renders at the time.                 *)
(***************************************************************************)
CallToggleDocument(doc) ==
    /\ \E i \in 1..Len(selectorDocuments) : selectorDocuments[i] = doc
    /\ selectedDocs' = toggleDocument(doc)
    /\ UNCHANGED <<selectorDocuments, selectorLoading, vvars>>

\* onClose of DocumentViewer, and "Clear all": setSelectedDocs([]).
ClearSelection ==
    /\ selectedDocs # <<>>
    /\ selectedDocs' = <<>>
    /\ UNCHANGED <<selectorDocuments, selectorLoading, vvars>>

NextToggle ==
    \/ LoadDocumentsOk /\ UNCHANGED <<rvars, svars, cvars>>
    \/ LoadDocumentsFail /\ UNCHANGED <<rvars, svars, cvars>>
    \/ \E doc \in DocIds : CallToggleDocument(doc) /\ UNCHANGED <<rvars, svars, cvars>>
    \/ ClearSelection /\ UNCHANGED <<rvars, svars, cvars>>

SpecToggle == InitSelector /\ [][NextToggle]_vars

(***************************************************************************)
(* SpecLoad: the viewer mounted on documents 1 and 2 over a storage that   *)
(* holds up to MaxLoaded annotations, of these documents and of a third    *)
(* one, of the signed-in user and of another user; its first reload.       *)
(***************************************************************************)
\* A stored annotation of one character at offset start of document d.
LoadedRow(id, owner, d, start) ==
    StoredRow([AnnotationPayload(d) EXCEPT
                  !.user_id = owner,
                  !.highlighted_text = Substring(Content(d), start, start + 1),
                  !.position_start = start,
                  !.position_end = start + 1],
              id)

InitLoad ==
    /\ RenderIdle
    /\ ClientUnobserved
    /\ SelectorShowing(<<1, 2>>)
    /\ tDocuments = [i \in 1..3 |-> DocumentRow(i, "u1")]
    /\ tConnections = <<>>
    /\ nextId = 0
    /\ lastDelete = NoDelete
    /\ rowBudget = 0
    /\ user = "u1"
    /\ documents = <<1, 2>>
    /\ \E n \in 0..MaxLoaded :
         \E owner \in [1..n -> Owners], d \in [1..n -> 1..3],
            start \in [1..n -> 0..(DocLen - 1)] :
            db = [i \in 1..n |-> LoadedRow(i, owner[i], d[i], start[i])]
    /\ annotations = [d \in DocIds |-> <<>>]
    /\ selection = Unset
    /\ mouseUpAt = 0
    /\ selectedText = NoSelectedText
    /\ showAnnotationForm = FALSE
    /\ note = ""
    /\ color = "yellow"
    /\ picked = FALSE
    /\ loading = FALSE
    /\ inserts = <<>>
    /\ loads = <<IssuedLoad(0)>>
    /\ latest = LatestPending
    /\ lastResponse = NoResponse

NextLoad ==
    \/ \E j \in 1..Len(loads) : LoadRead(j) /\ UNCHANGED <<rvars, svars, lvars, cvars>>
    \/ \E j \in 1..Len(loads) : LoadOk(j) /\ UNCHANGED <<rvars, svars, lvars, cvars>>
    \/ \E j \in 1..Len(loads) : LoadFail(j) /\ UNCHANGED <<rvars, svars, lvars, cvars>>

SpecLoad == InitLoad /\ [][NextLoad]_vars

(***************************************************************************)
(* The client as the storage sees it: the requests of its pages.  A        *)
(* handler reads user from the render that created it; a request is sent   *)
(* under the session of the moment (auth).                                 *)
(***************************************************************************)
\* .from(table).select/insert/delete: userId is the value of
\* .eq('user_id', ...) of a select and of user_id of an inserted row, NoUser
\* for a delete (.eq('id', id) only).
Request(table, op, userId, auth) ==
    [table |-> table, op |-> op, user_id |-> userId, auth |-> auth]

\* A handler suspended at an await: the user of its closure, the documents
\* of the row it inserts (0 otherwise), whether the view it belongs to is
\* still mounted and, for the handleSubmit of a modal form, whether the form
\* is.
Suspended(handler, u, sd, td) ==
    [handler |-> handler, user |-> u, source |-> sd, target |-> td,
     view |-> TRUE,
     modal |-> handler \in {"createConnection", "uploadDocument", "saveAnnotation"}]

\* The view or the modal form unmounts: what they await stays suspended.
ModalUnmounted(pending) ==
    [k \in 1..Len(pending) |-> [pending[k] EXCEPT !.modal = FALSE]]
ViewUnmounted(pending) ==
    [k \in 1..Len(pending) |-> [pending[k] EXCEPT !.modal = FALSE, !.view = FALSE]]

\* setError('Please select two different documents')
SameDocumentError == "Please select two different documents"

\* The state of a CreateConnectionModal as it mounts (and while none is).
ModalDefaults ==
    /\ sourceDocId' = 0
    /\ targetDocId' = 0
    /\ error' = ""

\* The documents the client finds stored.
ClientDocuments ==
    <<DocumentRow(1, "u1"), DocumentRow(2, "u1"), DocumentRow(3, "u2")>>

\* The rows of owner u as ids, the newest first: .eq('user_id', user.id)
\* .order('created_at', { ascending: false })
OwnIds(rows, u) ==
    LET own == SelectSeq(rows, LAMBDA r : r.user_id = u)
    IN  [i \in 1..Len(own) |-> own[Len(own) + 1 - i].id]

\* All of the viewer and of the selector stays as it is.
ClientFrame ==
    UNCHANGED <<rvars, selectorDocuments, selectorLoading, documents,
                annotations, selection, mouseUpAt,
                selectedText, showAnnotationForm, note, color, picked, loading,
                inserts, loads, latest, lastResponse, rowBudget>>

\* The requests of loadData() run by a render whose user is u: none if !user.
LoadDataRequests(u, auth) ==
    IF u = NoUser
    THEN {}
    ELSE {Request("connections", "select", u, auth),
          Request("documents", "select", u, auth)}

\* if (loading) return 'Loading ...': left by the first setLoading(false).
LoadingDone ==
    CASE screen = "ConnectionsLoading" -> "ConnectionsView"
      [] screen = "DocumentsLoading" -> "DocumentsList"
      [] screen = "SelectorLoading" -> "ViewerSelector"
      [] OTHER -> screen

\* The responses of loadData() arrive with data.
LoadDataOk(k) ==
    /\ k \in 1..Len(awaiting)
    /\ awaiting[k].handler = "loadData"
    /\ IF awaiting[k].view
       THEN /\ connections' = OwnIds(tConnections, awaiting[k].user)
            /\ viewDocuments' = OwnIds(tDocuments, awaiting[k].user)
            /\ screen' = LoadingDone
       ELSE UNCHANGED <<connections, viewDocuments, screen>>
    /\ awaiting' = RemoveAt(awaiting, k)
    /\ lastRequests' = {}
    /\ lastDelete' = NoDelete
    /\ UNCHANGED <<sourceDocId, targetDocId, error, activeView,
                   selectedDocs, user, db, tDocuments,
                   tConnections, nextId>>
    /\ ClientFrame

\* A response of loadData() arrives with an error: console.error.
LoadDataFail(k) ==
    /\ k \in 1..Len(awaiting)
    /\ awaiting[k].handler = "loadData"
    /\ screen' = IF awaiting[k].view THEN LoadingDone ELSE screen
    /\ awaiting' = RemoveAt(awaiting, k)
    /\ lastRequests' = {}
    /\ lastDelete' = NoDelete
    /\ UNCHANGED <<connections, viewDocuments, sourceDocId, targetDocId, error,
                   activeView, selectedDocs, activeView,
                   selectedDocs, user, db, tDocuments, tConnections, nextId>>
    /\ ClientFrame

\* onClick of "Create Connection": setShowCreateForm(true).
OpenCreateForm ==
    /\ screen = "ConnectionsView"
    /\ screen' = "CreateConnectionModal"
    /\ ModalDefaults
    /\ lastRequests' = {}
    /\ lastDelete' = NoDelete
    /\ UNCHANGED <<connections, viewDocuments, awaiting, activeView,
                   selectedDocs, user, db, tDocuments,
                   tConnections, nextId>>
    /\ ClientFrame

\* onClose of the modal form: setShowCreateForm(false).
CloseCreateForm ==
    /\ screen = "CreateConnectionModal"
    /\ screen' = "ConnectionsView"
    /\ ModalDefaults
    /\ awaiting' = ModalUnmounted(awaiting)
    /\ lastRequests' = {}
    /\ lastDelete' = NoDelete
    /\ UNCHANGED <<connections, viewDocuments, activeView,
                   selectedDocs, user, db, tDocuments,
                   tConnections, nextId>>
    /\ ClientFrame

\* The documents the view lists.
Listed(d) == \E i \in 1..Len(viewDocuments) : viewDocuments[i] = d

\* onChange of the source select: setSourceDocId(e.target.value).
ChooseSource(d) ==
    /\ screen = "CreateConnectionModal"
    /\ d = 0 \/ Listed(d)
    /\ d # sourceDocId
    /\ sourceDocId' = d
    /\ lastRequests' = {}
    /\ lastDelete' = NoDelete
    /\ UNCHANGED <<screen, connections, viewDocuments, targetDocId, error, awaiting,
                   activeView, selectedDocs, activeView,
                   selectedDocs, user, db, tDocuments, tConnections, nextId>>
    /\ ClientFrame

\* onChange of the target select: setTargetDocId(e.target.value).
ChooseTarget(d) ==
    /\ screen = "CreateConnectionModal"
    /\ d = 0 \/ Listed(d)
    /\ d # targetDocId
    /\ targetDocId' = d
    /\ lastRequests' = {}
    /\ lastDelete' = NoDelete
    /\ UNCHANGED <<screen, connections, viewDocuments, sourceDocId, error, awaiting,
                   activeView, selectedDocs, activeView,
                   selectedDocs, user, db, tDocuments, tConnections, nextId>>
    /\ ClientFrame

\* loading of the modal form shown: its own insert is awaited.
FormLoading ==
    \E k \in 1..Len(awaiting) : awaiting[k].modal

\* The form can be submitted: both selects are required, and the submit
\* button is disabled while loading.
CanSubmitConnection ==
    /\ screen = "CreateConnectionModal"
    /\ sourceDocId # 0
    /\ targetDocId # 0
    /\ ~FormLoading

\* The insert of handleSubmit is sent.
ConnectionInsertSent ==
    /\ Len(awaiting) < MaxAwaiting
    /\ nextId <= Len(ClientDocuments) + MaxCreated
    /\ error' = ""
    /\ awaiting' = Append(awaiting,
                          Suspended("createConnection", user, sourceDocId, targetDocId))
    /\ lastRequests' = {Request("connections", "insert", user, user)}

\* Faulty variant of SubmitConnection: handleSubmit without the test
\* sourceDocId === targetDocId.
SubmitConnectionUnchecked ==
    /\ CanSubmitConnection
    /\ IF user = NoUser
       THEN /\ lastRequests' = {}
            /\ UNCHANGED <<error, awaiting>>
       ELSE ConnectionInsertSent
    /\ lastDelete' = NoDelete
    /\ UNCHANGED <<screen, connections, viewDocuments, sourceDocId, targetDocId,
                   activeView, selectedDocs, activeView,
                   selectedDocs, user, db, tDocuments, tConnections, nextId>>
    /\ ClientFrame

\* CreateConnectionModal.handleSubmit, up to the await.
SubmitConnection ==
    /\ CanSubmitConnection
    /\ IF user = NoUser
       THEN /\ lastRequests' = {}
            /\ UNCHANGED <<error, awaiting>>
       ELSE IF sourceDocId = targetDocId
            THEN /\ error' = SameDocumentError
                 /\ lastRequests' = {}
                 /\ UNCHANGED awaiting
            ELSE ConnectionInsertSent
    /\ lastDelete' = NoDelete
    /\ UNCHANGED <<screen, connections, viewDocuments, sourceDocId, targetDocId,
                   activeView, selectedDocs, activeView,
                   selectedDocs, user, db, tDocuments, tConnections, nextId>>
    /\ ClientFrame

\* The insert succeeded (both documents are stored): handleSubmit resumes
\* with onSave(), which hides the modal form and runs loadData() of the
\* render that created the form; then finally setLoading(false).
ConnectionOk(k) ==
    /\ k \in 1..Len(awaiting)
    /\ awaiting[k].handler = "createConnection"
    /\ awaiting[k].source \in Ids(tDocuments)
    /\ awaiting[k].target \in Ids(tDocuments)
    /\ tConnections' = Append(tConnections,
                          ConnectionRow(nextId, awaiting[k].user, awaiting[k].source,
                                        awaiting[k].target, Null, Null))
    /\ nextId' = nextId + 1
    /\ IF awaiting[k].view /\ screen = "CreateConnectionModal"
       THEN /\ screen' = "ConnectionsView"
            /\ ModalDefaults
       ELSE UNCHANGED <<screen, sourceDocId, targetDocId, error>>
    /\ awaiting' = [ModalUnmounted(awaiting) EXCEPT
                       ![k] = [Suspended("loadData", awaiting[k].user, 0, 0)
                                  EXCEPT !.view = awaiting[k].view]]
    /\ lastRequests' = LoadDataRequests(awaiting[k].user, user)
    /\ lastDelete' = NoDelete
    /\ UNCHANGED <<connections, viewDocuments, activeView,
                   selectedDocs, user, db, tDocuments>>
    /\ ClientFrame

\* The insert failed: setError(err.message), then finally setLoading(false),
\* which reach the modal form only if it is still mounted.
ConnectionFail(k) ==
    /\ k \in 1..Len(awaiting)
    /\ awaiting[k].handler = "createConnection"
    /\ error' = IF awaiting[k].modal THEN "Failed to create connection" ELSE error
    /\ awaiting' = RemoveAt(awaiting, k)
    /\ lastRequests' = {}
    /\ lastDelete' = NoDelete
    /\ UNCHANGED <<screen, connections, viewDocuments, sourceDocId, targetDocId,
                   activeView, selectedDocs, activeView,
                   selectedDocs, user, db, tDocuments, tConnections, nextId>>
    /\ ClientFrame

\* deleteConnection(c), confirmed: the row goes if the session owns it, and
\* setConnections(connections.filter(...)).
DeleteConnection(c) ==
    /\ screen = "ConnectionsView"
    /\ \E i \in 1..Len(connections) : connections[i] = c
    /\ tConnections' = SelectSeq(tConnections, LAMBDA r : r.id # c \/ r.user_id # user)
    /\ connections' = SelectSeq(connections, LAMBDA id : id # c)
    /\ lastRequests' = {Request("connections", "delete", NoUser, user)}
    /\ lastDelete' = IF c \in Ids(SelectSeq(tConnections, LAMBDA r : r.user_id = user))
                     THEN [table |-> "connections", id |-> c, referenced |-> FALSE]
                     ELSE NoDelete
    /\ UNCHANGED <<screen, viewDocuments, sourceDocId, targetDocId, error, awaiting,
                   activeView, selectedDocs, activeView,
                   selectedDocs, user, db, tDocuments, nextId>>
    /\ ClientFrame

\* The view App renders for activeView v mounts for user u, all its state
\* as useState sets it, and its effect sends its first load: loadDocuments()
\* of DocumentsList and of ViewerSelector, loadData() of ConnectionsView.
ViewMounted(v, u) ==
    /\ screen' = CASE v = "documents" -> "DocumentsLoading"
                   [] v = "viewer" -> "SelectorLoading"
                   [] v = "connections" -> "ConnectionsLoading"
    /\ selectedDocs' = <<>>
    /\ viewDocuments' = <<>>
    /\ connections' = <<>>
    /\ ModalDefaults
    /\ awaiting' = Append(ViewUnmounted(awaiting),
                          Suspended(IF v = "connections" THEN "loadData"
                                                         ELSE "loadDocuments",
                                    u, 0, 0))
    /\ lastRequests' = IF v = "connections"
                       THEN LoadDataRequests(u, u)
                       ELSE {Request("documents", "select", u, u)}

\* The session begins: useAuth() returns user u, and App renders the header
\* and the view of activeView instead of AuthForm.
SignIn(u) ==
    /\ user = NoUser
    /\ Len(awaiting) < MaxAwaiting
    /\ user' = u
    /\ ViewMounted(activeView, u)
    /\ lastDelete' = NoDelete
    /\ UNCHANGED <<activeView, db, tDocuments, tConnections, nextId>>
    /\ ClientFrame

\* The session ends (signOut of the header, or the session lost): useAuth()
\* returns no user, and App renders AuthForm: the view unmounts.
SignOut ==
    /\ user # NoUser
    /\ user' = NoUser
    /\ screen' = "AuthForm"
    /\ selectedDocs' = <<>>
    /\ viewDocuments' = <<>>
    /\ connections' = <<>>
    /\ ModalDefaults
    /\ awaiting' = ViewUnmounted(awaiting)
    /\ lastRequests' = {}
    /\ lastDelete' = NoDelete
    /\ UNCHANGED <<activeView, db, tDocuments, tConnections, nextId>>
    /\ ClientFrame

\* onViewChange(v) of the header, with no modal form in front of it.
ChangeView(v) ==
    /\ user # NoUser
    /\ v # activeView
    /\ screen \notin {"UploadModal", "AnnotationForm", "CreateConnectionModal"}
    /\ Len(awaiting) < MaxAwaiting
    /\ activeView' = v
    /\ ViewMounted(v, user)
    /\ lastDelete' = NoDelete
    /\ UNCHANGED <<user, db, tDocuments, tConnections, nextId>>
    /\ ClientFrame

\* The response of loadDocuments() (DocumentsList, ViewerSelector) or of
\* loadAnnotations() arrives, with data (ok) or with an error.
ListLoaded(k, ok) ==
    /\ k \in 1..Len(awaiting)
    /\ awaiting[k].handler \in {"loadDocuments", "loadAnnotations"}
    /\ IF awaiting[k].handler = "loadDocuments" /\ awaiting[k].view
       THEN /\ viewDocuments' = IF ok THEN OwnIds(tDocuments, awaiting[k].user)
                                      ELSE viewDocuments
            /\ screen' = LoadingDone
       ELSE UNCHANGED <<viewDocuments, screen>>
    /\ awaiting' = RemoveAt(awaiting, k)
    /\ lastRequests' = {}
    /\ lastDelete' = NoDelete
    /\ UNCHANGED <<connections, sourceDocId, targetDocId, error, activeView,
                   selectedDocs, user, db, tDocuments, tConnections, nextId>>
    /\ ClientFrame

\* onClick of "Upload Document": setShowUpload(true).
OpenUpload ==
    /\ screen = "DocumentsList"
    /\ screen' = "UploadModal"
    /\ ModalDefaults
    /\ lastRequests' = {}
    /\ lastDelete' = NoDelete
    /\ UNCHANGED <<connections, viewDocuments, awaiting, activeView, selectedDocs,
                   user, db, tDocuments, tConnections, nextId>>
    /\ ClientFrame

\* onClose of UploadModal: setShowUpload(false).
CloseUpload ==
    /\ screen = "UploadModal"
    /\ screen' = "DocumentsList"
    /\ ModalDefaults
    /\ awaiting' = ModalUnmounted(awaiting)
    /\ lastRequests' = {}
    /\ lastDelete' = NoDelete
    /\ UNCHANGED <<connections, viewDocuments, activeView, selectedDocs, user, db,
                   tDocuments, tConnections, nextId>>
    /\ ClientFrame

\* UploadModal.handleSubmit, up to the await.
SubmitUpload ==
    /\ screen = "UploadModal"
    /\ ~FormLoading
    /\ IF user = NoUser
       THEN /\ lastRequests' = {}
            /\ UNCHANGED <<error, awaiting>>
       ELSE /\ Len(awaiting) < MaxAwaiting
            /\ nextId <= Len(ClientDocuments) + MaxCreated
            /\ error' = ""
            /\ awaiting' = Append(awaiting, Suspended("uploadDocument", user, 0, 0))
            /\ lastRequests' = {Request("documents", "insert", user, user)}
    /\ lastDelete' = NoDelete
    /\ UNCHANGED <<screen, connections, viewDocuments, sourceDocId, targetDocId,
                   activeView, selectedDocs, user, db, tDocuments, tConnections,
                   nextId>>
    /\ ClientFrame

\* The response of the insert arrives and UploadModal.handleSubmit resumes:
\* onUpload() hides the form and runs loadDocuments() of the render that
\* created the form; on an error setError; then finally setLoading(false).
UploadDone(k, ok) ==
    /\ k \in 1..Len(awaiting)
    /\ awaiting[k].handler = "uploadDocument"
    /\ IF ok
       THEN /\ tDocuments' = Append(tDocuments, DocumentRow(nextId, awaiting[k].user))
            /\ nextId' = nextId + 1
            /\ IF awaiting[k].view /\ screen = "UploadModal"
               THEN /\ screen' = "DocumentsList"
                    /\ error' = ""
               ELSE UNCHANGED <<screen, error>>
            /\ awaiting' = [ModalUnmounted(awaiting) EXCEPT
                               ![k] = [Suspended("loadDocuments", awaiting[k].user, 0, 0)
                                          EXCEPT !.view = awaiting[k].view]]
            /\ lastRequests' = {Request("documents", "select", awaiting[k].user, user)}
       ELSE /\ error' = IF awaiting[k].modal THEN "Failed to upload document" ELSE error
            /\ awaiting' = RemoveAt(awaiting, k)
            /\ lastRequests' = {}
            /\ UNCHANGED <<screen, tDocuments, nextId>>
    /\ lastDelete' = NoDelete
    /\ UNCHANGED <<connections, viewDocuments, sourceDocId, targetDocId, activeView,
                   selectedDocs, user, db, tConnections>>
    /\ ClientFrame

\* deleteDocument(d), confirmed: the row goes if the session owns it, with
\* what refers to it, and setDocuments(documents.filter(...)).
DeleteDocument(d) ==
    /\ screen = "DocumentsList"
    /\ Listed(d)
    /\ IF \E i \in 1..Len(tDocuments) : tDocuments[i].id = d /\ tDocuments[i].user_id = user
       THEN DeleteDocumentRow(d)
       ELSE /\ lastDelete' = NoDelete
            /\ UNCHANGED <<tDocuments, db, tConnections, nextId>>
    /\ viewDocuments' = SelectSeq(viewDocuments, LAMBDA id : id # d)
    /\ lastRequests' = {Request("documents", "delete", NoUser, user)}
    /\ UNCHANGED <<screen, connections, sourceDocId, targetDocId, error, awaiting,
                   activeView, selectedDocs, user>>
    /\ ClientFrame

\* onClick of a document of the grid of ViewerSelector: toggleDocument(d), and
\* DocumentViewer mounts: its effect runs loadAnnotations().
PickDocument(d) ==
    /\ screen = "ViewerSelector"
    /\ Listed(d)
    /\ Len(awaiting) < MaxAwaiting
    /\ selectedDocs' = toggleDocument(d)
    /\ screen' = "DocumentViewer"
    /\ IF user = NoUser
       THEN /\ lastRequests' = {}
            /\ UNCHANGED awaiting
       ELSE /\ awaiting' = Append(awaiting, Suspended("loadAnnotations", user, 0, 0))
            /\ lastRequests' = {Request("annotations", "select", user, user)}
    /\ lastDelete' = NoDelete
    /\ UNCHANGED <<connections, viewDocuments, sourceDocId, targetDocId, error,
                   activeView, user, db, tDocuments, tConnections, nextId>>
    /\ ClientFrame

\* onClose of DocumentViewer: setSelectedDocs([]), and DocumentViewer unmounts.
CloseDocumentViewer ==
    /\ screen = "DocumentViewer"
    /\ screen' = "ViewerSelector"
    /\ selectedDocs' = <<>>
    /\ awaiting' = ViewUnmounted(awaiting)
    /\ lastRequests' = {}
    /\ lastDelete' = NoDelete
    /\ UNCHANGED <<connections, viewDocuments, sourceDocId, targetDocId, error,
                   activeView, user, db, tDocuments, tConnections, nextId>>
    /\ ClientFrame

\* handleTextSelection over a selection it accepts: setShowAnnotationForm(true).
OpenAnnotationForm ==
    /\ screen = "DocumentViewer"
    /\ screen' = "AnnotationForm"
    /\ lastRequests' = {}
    /\ lastDelete' = NoDelete
    /\ UNCHANGED <<connections, viewDocuments, sourceDocId, targetDocId, error,
                   awaiting, activeView, selectedDocs, user, db, tDocuments,
                   tConnections, nextId>>
    /\ ClientFrame

\* onClose of AnnotationForm: setShowAnnotationForm(false).
CloseAnnotationForm ==
    /\ screen = "AnnotationForm"
    /\ screen' = "DocumentViewer"
    /\ awaiting' = ModalUnmounted(awaiting)
    /\ lastRequests' = {}
    /\ lastDelete' = NoDelete
    /\ UNCHANGED <<connections, viewDocuments, sourceDocId, targetDocId, error,
                   activeView, selectedDocs, user, db, tDocuments, tConnections,
                   nextId>>
    /\ ClientFrame

\* AnnotationForm.handleSubmit, up to the await: the annotation lies in the
\* document selected.
SubmitAnnotation ==
    /\ screen = "AnnotationForm"
    /\ ~FormLoading
    /\ IF user = NoUser
       THEN /\ lastRequests' = {}
            /\ UNCHANGED awaiting
       ELSE /\ Len(awaiting) < MaxAwaiting
            /\ nextId <= Len(ClientDocuments) + MaxCreated
            /\ awaiting' = Append(awaiting,
                                  Suspended("saveAnnotation", user, selectedDocs[1], 0))
            /\ lastRequests' = {Request("annotations", "insert", user, user)}
    /\ lastDelete' = NoDelete
    /\ UNCHANGED <<screen, connections, viewDocuments, sourceDocId, targetDocId,
                   error, activeView, selectedDocs, user, db, tDocuments,
                   tConnections, nextId>>
    /\ ClientFrame

\* The response of the insert arrives and AnnotationForm.handleSubmit
\* resumes: onSave() hides the form and runs loadAnnotations() of the render
\* that created the form; on an error console.error; then finally
\* setLoading(false).  The insert succeeds only if the document is stored.
AnnotationDone(k, ok) ==
    /\ k \in 1..Len(awaiting)
    /\ awaiting[k].handler = "saveAnnotation"
    /\ IF ok
       THEN /\ awaiting[k].source \in Ids(tDocuments)
            /\ db' = Append(db, StoredRow([AnnotationPayload(awaiting[k].source)
                                             EXCEPT !.user_id = awaiting[k].user],
                                          nextId))
            /\ nextId' = nextId + 1
            /\ screen' = IF awaiting[k].view /\ screen = "AnnotationForm"
                         THEN "DocumentViewer"
                         ELSE screen
            /\ awaiting' = [ModalUnmounted(awaiting) EXCEPT
                               ![k] = [Suspended("loadAnnotations", awaiting[k].user, 0, 0)
                                          EXCEPT !.view = awaiting[k].view]]
            /\ lastRequests' = {Request("annotations", "select", awaiting[k].user, user)}
       ELSE /\ awaiting' = RemoveAt(awaiting, k)
            /\ lastRequests' = {}
            /\ UNCHANGED <<screen, db, nextId>>
    /\ lastDelete' = NoDelete
    /\ UNCHANGED <<connections, viewDocuments, sourceDocId, targetDocId, error,
                   activeView, selectedDocs, user, tDocuments, tConnections>>
    /\ ClientFrame

\* No DocumentViewer is mounted.
ViewerAbsent ==
    /\ documents = <<>>
    /\ annotations = [d \in DocIds |-> <<>>]
    /\ selection = Unset
    /\ mouseUpAt = 0
    /\ selectedText = NoSelectedText
    /\ showAnnotationForm = FALSE
    /\ note = ""
    /\ color = "yellow"
    /\ picked = FALSE
    /\ loading = FALSE
    /\ inserts = <<>>
    /\ loads = <<>>
    /\ latest = LatestPending
    /\ lastResponse = NoResponse
    /\ rowBudget = 0

\* The storage as the client finds it.
ClientStorage ==
    /\ tDocuments = ClientDocuments
    /\ tConnections = <<>>
    /\ db = <<>>
    /\ nextId = Len(ClientDocuments) + 1
    /\ lastDelete = NoDelete

(***************************************************************************)
(* SpecConnect: ConnectionsView from its mount, with the modal form.       *)
(***************************************************************************)
InitConnect ==
    /\ RenderIdle
    /\ SelectorMounting
    /\ ViewerAbsent
    /\ ClientStorage
    /\ user = "u1"
    /\ activeView = "connections"
    /\ screen = "ConnectionsLoading"
    /\ viewDocuments = <<>>
    /\ connections = <<>>
    /\ sourceDocId = 0
    /\ targetDocId = 0
    /\ error = ""
    /\ awaiting = <<Suspended("loadData", "u1", 0, 0)>>
    /\ lastRequests = LoadDataRequests("u1", "u1")

NextConnect ==
    \/ \E k \in 1..Len(awaiting) : LoadDataOk(k)
    \/ \E k \in 1..Len(awaiting) : LoadDataFail(k)
    \/ OpenCreateForm
    \/ CloseCreateForm
    \/ \E d \in DocIds \cup {0} : ChooseSource(d)
    \/ \E d \in DocIds \cup {0} : ChooseTarget(d)
    \/ SubmitConnection
    \/ \E k \in 1..Len(awaiting) : ConnectionOk(k)
    \/ \E k \in 1..Len(awaiting) : ConnectionFail(k)
    \/ \E c \in 1..(Len(ClientDocuments) + MaxCreated) : DeleteConnection(c)

SpecConnect == InitConnect /\ [][NextConnect]_vars

(***************************************************************************)
(* SpecClient: the whole client from AuthForm, as the requests it sends:   *)
(* sessions of two users, the three views and their modal forms.           *)
(***************************************************************************)
InitClient ==
    /\ RenderIdle
    /\ SelectorMounting
    /\ ViewerAbsent
    /\ ClientStorage
    /\ user = NoUser
    /\ activeView = "documents"
    /\ screen = "AuthForm"
    /\ viewDocuments = <<>>
    /\ connections = <<>>
    /\ sourceDocId = 0
    /\ targetDocId = 0
    /\ error = ""
    /\ awaiting = <<>>
    /\ lastRequests = {}

NextClient ==
    \/ \E u \in Owners : SignIn(u)
    \/ SignOut
    \/ \E v \in {"documents", "viewer", "connections"} : ChangeView(v)
    \/ \E k \in 1..Len(awaiting), ok \in BOOLEAN : ListLoaded(k, ok)
    \/ OpenUpload
    \/ CloseUpload
    \/ SubmitUpload
    \/ \E k \in 1..Len(awaiting), ok \in BOOLEAN : UploadDone(k, ok)
    \/ \E d \in DocIds : DeleteDocument(d)
    \/ \E d \in DocIds : PickDocument(d)
    \/ CloseDocumentViewer
    \/ OpenAnnotationForm
    \/ CloseAnnotationForm
    \/ SubmitAnnotation
    \/ \E k \in 1..Len(awaiting), ok \in BOOLEAN : AnnotationDone(k, ok)
    \/ NextConnect

SpecClient == InitClient /\ [][NextClient]_vars

(***************************************************************************)
(* Properties of the renderer, checked under SpecRender.                   *)
(***************************************************************************)
Rendered == rPc = "rendered"

\* 0 <= position_start <= position_end <= length(content)
ValidRange(ann, content) ==
    /\ 0 <= ann.position_start
    /\ ann.position_start <= ann.position_end
    /\ ann.position_end <= Len(content)

AllValid(anns, content) == \A i \in 1..Len(anns) : ValidRange(anns[i], content)

\* The interval test for two ranges: each starts before the other ends.
Overlap(a, b) ==
    /\ a.position_start < b.position_end
    /\ b.position_start < a.position_end

\* The two ranges have a character in common.
ShareCharacter(a, b) ==
    Max(a.position_start, b.position_start) < Min(a.position_end, b.position_end)

PairwiseNonOverlapping(anns) ==
    \A i, j \in 1..Len(anns) : i # j => ~Overlap(anns[i], anns[j])

\* C1 (Coverage): for a valid, pairwise non-overlapping annotation set, the
\* texts of the rendered segments, concatenated in order, are the content.
C1_Coverage ==
    (Rendered /\ AllValid(rAnns, rContent) /\ PairwiseNonOverlapping(rAnns))
        => TextOfPieces(rOut) = rContent

\* C2 (Overlap safety): when two valid annotations of the document have
\* characters in common (overlapping or nested), the concatenation of the
\* segment texts is still the content: no character is rendered twice.
C2_OverlapSafety ==
    (/\ Rendered
     /\ AllValid(rAnns, rContent)
     /\ \E i, j \in 1..Len(rAnns) : i # j /\ ShareCharacter(rAnns[i], rAnns[j]))
        => TextOfPieces(rOut) = rContent

IsSliceOf(text, content) ==
    \E a \in 0..Len(content), b \in 0..Len(content) :
        a <= b /\ text = SubSeq(content, a + 1, b)

\* C5 (Out-of-range clamp): whatever the offsets of the annotations (end past
\* the content, negative start, start after end), the text of every
\* highlighted segment is a slice of content within [0, length(content)],
\* so it is no longer than content.
C5_OutOfRangeClamp ==
    Rendered =>
        \A i \in 1..Len(rOut) :
            rOut[i].highlighted =>
                /\ IsSliceOf(rOut[i].text, rContent)
                /\ Len(rOut[i].text) <= Len(rContent)

\* The annotation of a non-empty highlighted piece of the output satisfies P.
ShownHighlightWith(P(_)) ==
    \E i \in 1..Len(rOut) :
        /\ rOut[i].highlighted
        /\ rOut[i].text # <<>>
        /\ \E k \in 1..Len(rAnns) : rAnns[k].id = rOut[i].annotation /\ P(rAnns[k])

\* C5's case: an annotation ending past the content and one that is
\* malformed (negative start, or start after end) are both rendered as
\* non-empty highlighted segments.
C5_Witness ==
    /\ Rendered
    /\ ShownHighlightWith(LAMBDA ann : ann.position_end > Len(rContent))
    /\ ShownHighlightWith(LAMBDA ann : \/ ann.position_start < 0
                                       \/ ann.position_start > ann.position_end)

\* C10 (No-annotation identity): a document without annotations is rendered
\* as exactly one plain piece whose text is the whole content.
C10_NoAnnotationIdentity ==
    (Rendered /\ rAnns = <<>>) =>
        /\ Len(rOut) = 1
        /\ ~rOut[1].highlighted
        /\ rOut[1].text = rContent

\* C10's case: the empty content rendered without annotations.
C10_Witness == Rendered /\ rAnns = <<>> /\ rContent = <<>>

\* C11 (Order preservation): for any valid annotation set (overlapping and
\* nested ranges included), the segments come in the order of the content:
\* each segment's slice starts at or after the end of the slice of the
\* segment before it.
C11_OrderPreservation ==
    (Rendered /\ AllValid(rAnns, rContent)) =>
        \A i \in 2..Len(rOut) : rOut[i - 1].hi <= rOut[i].lo

\* The fields of the code's segments, without the ghost fields.
CodeFields(pieces) ==
    [i \in 1..Len(pieces) |->
        [text |-> pieces[i].text, highlighted |-> pieces[i].highlighted,
         annotation |-> pieces[i].annotation]]

PlainSegment(text) == [text |-> text, highlighted |-> FALSE, annotation |-> NoAnn]

\* The segments C12 names for the single annotation ann on content.
SingleAnnotationSegments(content, ann) ==
    (IF ann.position_start > 0
     THEN <<PlainSegment(SubSeq(content, 1, ann.position_start))>>
     ELSE <<>>)
    \o <<[text |-> SubSeq(content, ann.position_start + 1, ann.position_end),
          highlighted |-> TRUE, annotation |-> ann.id]>>
    \o (IF ann.position_end < Len(content)
        THEN <<PlainSegment(SubSeq(content, ann.position_end + 1, Len(content)))>>
        ELSE <<>>)

\* C12: a single in-range annotation [s, e) is rendered as exactly the plain
\* segment content[0:s] iff s > 0, the highlighted segment content[s:e] tagged
\* with the annotation, and the plain segment content[e:] iff e < length.
C12_SingleAnnotationSegments ==
    (Rendered /\ Len(rAnns) = 1 /\ ValidRange(rAnns[1], rContent)) =>
        CodeFields(rOut) = SingleAnnotationSegments(rContent, rAnns[1])

\* C12's case: one annotation strictly inside the content, rendered as three
\* segments.
C12_Witness ==
    /\ Rendered
    /\ Len(rAnns) = 1
    /\ 0 < rAnns[1].position_start
    /\ rAnns[1].position_start < rAnns[1].position_end
    /\ rAnns[1].position_end < Len(rContent)
    /\ Len(rOut) = 3

\* C20 (Cursor monotonicity): over any valid annotation set (overlapping and
\* nested ranges included) lastIndex never decreases from one annotation of
\* the sorted walk to the next, and the trailing plain segment does not start
\* before the end of a segment already emitted.
C20_CursorMonotonic ==
    (Rendered /\ AllValid(rAnns, rContent)) =>
        /\ \A n \in 1..Len(rAnns) :
              LastIndexAfter(rAnns, n - 1) <= LastIndexAfter(rAnns, n)
        /\ (Len(rAnns) > 0 /\ ~rOut[Len(rOut)].highlighted) =>
              \A i \in 1..(Len(rOut) - 1) : rOut[i].hi <= rOut[Len(rOut)].lo

\* C16 (Color fallback): getHighlightColor returns the mapped value for
\* yellow, green, blue, pink and purple and the value of yellow for every
\* other stored color name (unknown, empty or missing), and that is the
\* background every highlighted segment is rendered with.
C16_ColorFallback ==
    Rendered =>
        /\ \A k \in 1..Len(rAnns) :
              getHighlightColor(rAnns[k].color)
                = IF rAnns[k].color \in Colors
                  THEN OwnColors[rAnns[k].color]
                  ELSE OwnColors["yellow"]
        /\ \A i \in 1..Len(rOut) :
              rOut[i].highlighted =>
                \E k \in 1..Len(rAnns) :
                    /\ rAnns[k].id = rOut[i].annotation
                    /\ rStyles[i] = IF rAnns[k].color \in Colors
                                    THEN OwnColors[rAnns[k].color]
                                    ELSE OwnColors["yellow"]

(***************************************************************************)
(* Properties of the viewer, checked under Spec and SpecOverlap (one        *)
(* document shown) and SpecMulti (several).  In a state in which mouseUpAt is a document, the  *)
(* step just taken was handleTextSelection(mouseUpAt) on the selection     *)
(* held in selection, over the view the state still shows.                 *)
(***************************************************************************)
\* For every rendered character of the pieces, the 1-based index in the
\* content of the character it was sliced from, and the piece it is in.
SourceIndices(pieces) ==
    Concat([i \in 1..Len(pieces) |->
                [k \in 1..(pieces[i].hi - pieces[i].lo) |-> pieces[i].lo + k]])

PieceOfCharacter(pieces) ==
    Concat([i \in 1..Len(pieces) |-> [k \in 1..Len(pieces[i].text) |-> i]])

\* The selection lies in the container of document d.
WithinContainer(sel, d) ==
    /\ sel.kind = "range"
    /\ documents[sel.sd] = d
    /\ sel.ed = sel.sd

\* The selection picks, in the rendered view of d, exactly the characters
\* rendered from content[s:e].
SelectsSlice(sel, d, s, e) ==
    /\ WithinContainer(sel, d)
    /\ SubSeq(SourceIndices(ContainerPieces(d)), sel.so + 1, sel.eo)
         = [k \in 1..(e - s) |-> s + k]

AllWhitespace(text) == \A k \in 1..Len(text) : text[k] \in Whitespace

\* C3 (Selection round-trip): for any start < end within content (the slice
\* not being whitespace only), selecting exactly content[start:end] in the
\* rendered view makes handleTextSelection produce the candidate with that
\* start and end and the text content[start:end].
C3_SelectionRoundTrip ==
    \A d \in DocIds, s \in 0..DocLen, e \in 0..DocLen :
        (/\ mouseUpAt = d
         /\ s < e
         /\ ~AllWhitespace(SubSeq(Content(d), s + 1, e))
         /\ SelectsSlice(selection, d, s, e))
            => selectedText = [text |-> SubSeq(Content(d), s + 1, e),
                               docId |-> d, start |-> s, end |-> e]

\* The selection takes characters of a highlighted piece and of a plain one.
CrossesHighlightBoundary(sel, d) ==
    LET pieces == ContainerPieces(d)
        chosen == {PieceOfCharacter(pieces)[x] : x \in (sel.so + 1)..sel.eo}
    IN  /\ WithinContainer(sel, d)
        /\ \E i \in chosen : pieces[i].highlighted
        /\ \E i \in chosen : ~pieces[i].highlighted

\* C4 (Document coordinates): whatever annotations the view was rendered
\* from, an accepted selection that crosses a highlight boundary yields one
\* range [start, end) whose start is the offset, in the original content, of
\* the first selected character, and whose length is that of the selection.
C4_DocumentCoordinates ==
    \A d \in DocIds :
        (/\ mouseUpAt = d
         /\ CrossesHighlightBoundary(selection, d)
         /\ ~AllWhitespace(SelectionString(selection)))
            => /\ selectedText.docId = d
               /\ selectedText.start
                    = SourceIndices(ContainerPieces(d))[selection.so + 1] - 1
               /\ selectedText.end = selectedText.start + (selection.eo - selection.so)

\* C6: every persisted annotation satisfies
\* 0 <= position_start <= position_end <= length(content) of its document.
C6_PersistedRangeValid ==
    \A k \in 1..Len(db) : ValidRange(db[k], Content(db[k].document_id))

\* C7: every persisted annotation's highlighted_text is
\* content[position_start:position_end] of its document.
C7_HighlightedTextIsSlice ==
    \A k \in 1..Len(db) :
        /\ ValidRange(db[k], Content(db[k].document_id))
        /\ db[k].highlighted_text
             = SubSeq(Content(db[k].document_id), db[k].position_start + 1,
                      db[k].position_end)

EmptySelection(sel) ==
    \/ sel.kind = "null"
    \/ sel.kind = "range" /\ sel.sd = sel.ed /\ sel.so = sel.eo
    \/ sel.kind = "range" /\ AllWhitespace(SelectionString(sel))

\* C9 (Empty selection is a no-op): a mouse-up that finds the selection
\* absent, collapsed or whitespace only leaves selectedText and
\* showAnnotationForm as they were: no candidate, no form.
C9_EmptySelectionNoOp ==
    [][(mouseUpAt' # 0 /\ EmptySelection(selection'))
           => (/\ UNCHANGED <<selectedText, showAnnotationForm>>
               /\ selectedText' = NoSelectedText
               /\ ~showAnnotationForm')]_vars

\* C9's case: a mouse-up has just found a non-collapsed selection of
\* whitespace only, over a view that holds a highlight.
C9_Witness ==
    /\ mouseUpAt # 0
    /\ selection.kind = "range"
    /\ selection.so < selection.eo
    /\ AllWhitespace(SelectionString(selection))
    /\ annotations[mouseUpAt] # <<>>
    /\ selectedText = NoSelectedText
    /\ ~showAnnotationForm

(***************************************************************************)
(* Properties of the annotation form, checked under SpecForm.              *)
(***************************************************************************)
\* C17: every annotation created through the form carries one of the five
\* colors, and yellow when no color button was clicked; so does every row
\* the form has submitted.
C17_FormColor ==
    /\ \A k \in 1..Len(db) :
          /\ db[k].color \in {"yellow", "green", "blue", "pink", "purple"}
          /\ ~db[k].picked => db[k].color = "yellow"
    /\ \A k \in 1..Len(inserts) :
          /\ inserts[k].row.color \in {"yellow", "green", "blue", "pink", "purple"}
          /\ ~inserts[k].row.picked => inserts[k].row.color = "yellow"

\* C17's case: an annotation created after a click on a color other than
\* yellow.
C17_Witness ==
    \E k \in 1..Len(db) : db[k].picked /\ db[k].color = "purple"

(***************************************************************************)
(* Properties of saving and reloading, checked under Spec.                 *)
(***************************************************************************)
\* The annotations the highlighted segments of the pieces are tagged with.
HighlightedIds(pieces) ==
    {pieces[i].annotation : i \in {k \in 1..Len(pieces) : pieces[k].highlighted}}

\* The view of a displayed document, rendered from the annotations anns,
\* holds a highlighted segment tagged with the annotation of that id.
HighlightShown(anns, id) ==
    \E x \in 1..Len(documents) :
        id \in HighlightedIds(renderDocumentWithHighlights(Content(documents[x]),
                                                          anns[documents[x]]))

\* C13: the step in which an annotation insert succeeds issues a reload of
\* the annotations, and the step in which that reload succeeds leaves a view
\* with a highlighted segment tagged with the new annotation.
C13_ReloadShowsNewAnnotation ==
    [][/\ (db' # db) =>
             /\ Len(db') = Len(db) + 1
             /\ loads' = Append(loads, [snap |-> NotRead, saved |-> db'[Len(db')].id])
       /\ \A j \in 1..Len(loads), id \in 1..Len(db) :
             (loads[j].saved = id /\ loads' = RemoveAt(loads, j) /\ LoadOk(j))
                => HighlightShown(annotations', id)]_vars

\* C13's case: the newest annotation is shown highlighted, the reload its
\* save issued having been answered with data.
C13_Witness ==
    /\ db # <<>>
    /\ latest.outcome = "ok"
    /\ \A j \in 1..Len(loads) : ~Newest(loads[j])
    /\ HighlightShown(annotations, Len(db))

\* C14 (Last reload wins): once the responses of all reloads have arrived,
\* the most recently issued one having succeeded, the annotations displayed
\* are the result of that reload.
C14_LastReloadWins ==
    (loads = <<>> /\ latest.outcome = "ok") =>
        annotations = AfterRender(Grouped(SelectedRows(latest.snap)))

(***************************************************************************)
(* What the viewer shows of a storage failure.  Neither DocumentViewer nor *)
(* AnnotationForm holds an error state: a failed insert or reload is       *)
(* written to the console, and the page keeps the texts of its JSX.        *)
(***************************************************************************)
\* The messages of the page: the hint of every card and, while the form is
\* mounted, its title and the label of its submit button.
PageMessages ==
    (IF Len(documents) > 0
     THEN {"Select text to add annotations and highlights"}
     ELSE {})
    \cup (IF FormShown
          THEN {"Add Annotation", IF loading THEN "Saving..." ELSE "Save Annotation"}
          ELSE {})

\* The messages of the console.error calls.
ConsoleErrors == {"Error loading annotations:", "Error saving annotation:"}

\* An error message is visible to the user.
ErrorVisible == PageMessages \cap ConsoleErrors # {}

\* C15: every storage failure (here: a failed annotation insert, a failed
\* annotation reload) leads to a state in which an error message is visible
\* to the user.
C15_StorageFailureVisible ==
    [][((\E k \in 1..Len(inserts) : InsertFail(k))
        \/ (\E j \in 1..Len(loads) : LoadFail(j))) => ErrorVisible']_vars

(***************************************************************************)
(* Properties of the storage, checked under SpecStorage.                   *)
(***************************************************************************)
\* No annotation and no connection references a document that is not
\* stored, or an annotation that is not.
NoDanglingReference ==
    /\ \A k \in 1..Len(db) : db[k].document_id \in Ids(tDocuments)
    /\ \A i \in 1..Len(tConnections) :
          /\ tConnections[i].source_document_id \in Ids(tDocuments)
          /\ tConnections[i].target_document_id \in Ids(tDocuments)
          /\ tConnections[i].source_annotation_id \in Ids(db) \cup {Null}
          /\ tConnections[i].target_annotation_id \in Ids(db) \cup {Null}

\* The step deleted annotation a alone: the row is gone, no document is.
AnnotationAloneDeleted(a) ==
    /\ a \in Ids(db)
    /\ Ids(db') = Ids(db) \ {a}
    /\ tDocuments' = tDocuments

\* Connection c after the step.
ConnectionAfter(c) ==
    CHOOSE r \in {tConnections'[i] : i \in 1..Len(tConnections')} : r.id = c.id

\* C18 (Referential policy): after every create or delete, no annotation or
\* connection references a deleted document; and the delete of an
\* annotation keeps every connection, with source_annotation_id and
\* target_annotation_id null where they referenced it and every other
\* column as it was.
C18_ReferentialPolicy ==
    [][/\ NoDanglingReference'
       /\ \A a \in 1..MaxIds :
             AnnotationAloneDeleted(a) =>
                /\ Ids(tConnections') = Ids(tConnections)
                /\ \A i \in 1..Len(tConnections) :
                      ConnectionAfter(tConnections[i])
                        = [tConnections[i] EXCEPT
                             !.source_annotation_id = IF @ = a THEN Null ELSE @,
                             !.target_annotation_id = IF @ = a THEN Null ELSE @]]_vars

\* C18's case: the step just taken deleted an annotation that a connection
\* referenced, and a connection is stored.
C18_Witness ==
    /\ lastDelete.table = "annotations"
    /\ lastDelete.referenced
    /\ tConnections # <<>>

\* ViewerSelector renders the grid only while nothing is selected.
AtMostOneSelected == Len(selectedDocs) <= 1

\* C19: the selector lets the user select up to 3 documents: while fewer
\* than 3 are selected and a listed document is not yet among them, the user
\* can toggle a document, so that from the empty selection a view of 2 or 3
\* documents is reached through toggleDocument.
C19_SelectionCanGrow ==
    (/\ ViewerShown
     /\ Len(selectedDocs) < 3
     /\ \E i \in 1..Len(selectorDocuments) : ~IsSelected(selectorDocuments[i]))
        => ENABLED (\E doc \in DocIds : ToggleDocument(doc))


(***************************************************************************)
(* More properties of the renderer, checked under SpecRender.              *)
(***************************************************************************)
\* The slice of the n-th annotation of the sorted walk once clamped against
\* the cursor and the bounds of the content is empty.
ClampedSliceEmpty(content, highlights, n) ==
    ClampIndex(content, Max(highlights[n].position_start,
                            LastIndexAfter(highlights, n - 1)))
        >= ClampIndex(content, highlights[n].position_end)

\* C21: over a valid annotation set no highlighted segment has an empty
\* text, and an annotation whose slice is empty after clamping against the
\* cursor and the bounds of the content contributes no segment.
C21_NoEmptyHighlightedSegment ==
    (Rendered /\ AllValid(rAnns, rContent)) =>
        /\ \A i \in 1..Len(rOut) : rOut[i].highlighted => rOut[i].text # <<>>
        /\ \A n \in 1..Len(rAnns) :
              ClampedSliceEmpty(rContent, rAnns, n) =>
                  \A i \in 1..Len(rOut) : rOut[i].annotation # rAnns[n].id


\* The ids of the annotations in the order the walk handled them: each
\* pushes one highlighted segment.
ProcessedIds ==
    LET marks == SelectSeq(rOut, LAMBDA piece : piece.highlighted)
    IN  [i \in 1..Len(marks) |-> marks[i].annotation]

\* The annotation of the document with this id.
AnnotationOf(id) == CHOOSE a \in {rAnns[k] : k \in 1..Len(rAnns)} : a.id = id

\* InitRender numbers the annotations in the order of the loaded list.
LoadedPosition(id) == id

\* C22: the annotations are handled in ascending position_start order, those
\* with equal position_start in the order of the loaded list.
C22_StableAscendingOrder ==
    Rendered =>
        /\ Len(ProcessedIds) = Len(rAnns)
        /\ \A i, j \in 1..Len(ProcessedIds) :
              i < j =>
                 LET a == AnnotationOf(ProcessedIds[i])
                     b == AnnotationOf(ProcessedIds[j])
                 IN  \/ a.position_start < b.position_start
                     \/ /\ a.position_start = b.position_start
                        /\ LoadedPosition(a.id) < LoadedPosition(b.id)

\* C22's case: two annotations with the same position_start were rendered,
\* the one loaded first ending after the other.
C22_Witness ==
    /\ Rendered
    /\ Len(rAnns) = 2
    /\ rAnns[1].position_start = rAnns[2].position_start
    /\ AnnotationOf(1).position_end > AnnotationOf(2).position_end


\* C24: a render (here: over a valid annotation set) leaves its inputs as
\* they were: the content, and the annotation list held in the state of the
\* viewer, order included.
C24_RenderLeavesInputs ==
    [][(RenderDocument /\ AllValid(rAnns, rContent))
          => (rContent' = rContent /\ rAnns' = rAnns)]_vars


(***************************************************************************)
(* More properties of the viewer.                                          *)
(***************************************************************************)
\* C25: the annotation form is shown if and only if a candidate selection is
\* held: showAnnotationForm is true exactly when selectedText is not null.
C25_FormIffCandidate ==
    showAnnotationForm <=> (selectedText # NoSelectedText)

\* C25's case: after a save has hidden the form and dropped the candidate, a
\* new selection is held and the form is shown again.
C25_Witness ==
    /\ Len(db) > 0
    /\ showAnnotationForm
    /\ selectedText # NoSelectedText


\* C26: when the insert of a form still open fails, the form stays open
\* with its candidate, note and color, its loading flag is false again, no
\* reload is issued and the annotations displayed are the same: the save can
\* be invoked again.
C26_InsertFailureKeepsForm ==
    [][\A k \in 1..Len(inserts) :
          (InsertFail(k) /\ inserts[k].live) =>
              /\ showAnnotationForm' /\ selectedText' # NoSelectedText
              /\ selectedText' = selectedText
              /\ note' = note
              /\ color' = color
              /\ loading' = FALSE
              /\ loads' = loads
              /\ annotations' = annotations
              /\ db' = db]_vars

\* C26's case: the insert of an open form has just failed, the form holding
\* a note and a color its user chose.
C26_Witness ==
    /\ lastResponse = Response("insert", FALSE, TRUE)
    /\ note # ""
    /\ color # "yellow"
    /\ showAnnotationForm
    /\ ~loading


PlacesOf(anns, r) ==
    {p \in DocIds \X (1..Len(db)) :
        p[2] <= Len(anns[p[1]]) /\ anns[p[1]][p[2]] = r}

\* The ids highlighted in the view of document d when the groups are anns.
HighlightedIn(anns, d) ==
    HighlightedIds(renderDocumentWithHighlights(Content(d), anns[d]))

\* C28: after a successful reload every loaded annotation is in exactly one
\* group, that of its document_id; the view of each document highlights
\* exactly the loaded annotations of that document, none of another one.
C28_GroupedByDocument ==
    [][\A j \in 1..Len(loads) :
          LoadOk(j) =>
             LET data == SelectedRows(loads[j].snap)
             IN  /\ \A k \in 1..Len(data) :
                       /\ Cardinality(PlacesOf(annotations', data[k])) = 1
                       /\ \A p \in PlacesOf(annotations', data[k]) :
                             p[1] = data[k].document_id
                 /\ \A i \in 1..Len(documents) :
                       HighlightedIn(annotations', documents[i])
                          = {data[k].id : k \in {n \in 1..Len(data) :
                                 data[n].document_id = documents[i]}}]_vars

\* C28's case: two documents are shown and a reload has just brought an
\* annotation of each, the one of the second document stored first.
C28_Witness ==
    /\ lastResponse = Response("load", TRUE, TRUE)
    /\ Len(documents) >= 2
    /\ HighlightedIn(annotations, documents[1]) = {2}
    /\ HighlightedIn(annotations, documents[2]) = {1}


(***************************************************************************)
(* Properties of the selection of documents, checked under SpecToggle.     *)
(***************************************************************************)
\* At most 3 documents, no id twice.
AtMostThreeDistinct(docs) ==
    /\ Len(docs) <= 3
    /\ \A i, j \in 1..Len(docs) : i # j => docs[i] # docs[j]

\* docs without doc, the others in their order.
Without(docs, doc) == SelectSeq(docs, LAMBDA d : d # doc)

\* C29: after any sequence of toggleDocument calls and closes the selection
\* holds at most 3 documents, no id twice; toggling a selected document
\* removes it, and toggling an unselected one while 3 are selected changes
\* nothing.
C29_SelectionBounded ==
    [][/\ AtMostThreeDistinct(selectedDocs')
       /\ \A doc \in DocIds :
             CallToggleDocument(doc) =>
                /\ IsSelected(doc) => selectedDocs' = Without(selectedDocs, doc)
                /\ (~IsSelected(doc) /\ Len(selectedDocs) = 3)
                      => selectedDocs' = selectedDocs
                /\ (~IsSelected(doc) /\ Len(selectedDocs) < 3)
                      => selectedDocs' = Append(selectedDocs, doc)]_vars

\* C29's case: 3 documents are selected and a fourth one is listed.
C29_Witness ==
    /\ Len(selectedDocs) = 3
    /\ \E i \in 1..Len(selectorDocuments) : ~IsSelected(selectorDocuments[i])


(***************************************************************************)
(* Properties of the connection form, checked under SpecConnect.           *)
(***************************************************************************)
NoSelfConnection(conns) ==
    \A i \in 1..Len(conns) : conns[i].source_document_id # conns[i].target_document_id

\* C30: the form never creates a connection from a document to itself:
\* submitted with the source document equal to the target document it sends
\* no insert, shows 'Please select two different documents' and leaves the
\* connections as they are, in the storage and in the list.
C30_NoSelfConnection ==
    [][/\ NoSelfConnection(tConnections')
       /\ (SubmitConnection /\ sourceDocId = targetDocId) =>
             /\ lastRequests' = {}
             /\ awaiting' = awaiting
             /\ error' = SameDocumentError
             /\ tConnections' = tConnections
             /\ connections' = connections]_vars

\* C30's case: the form shows the error over the same document chosen twice,
\* while the list holds a connection.
C30_Witness ==
    /\ screen = "CreateConnectionModal"
    /\ error = SameDocumentError
    /\ sourceDocId # 0
    /\ sourceDocId = targetDocId
    /\ connections # <<>>


(***************************************************************************)
(* Properties of the client's requests, checked under SpecClient.          *)
(***************************************************************************)
\* C23: every request is sent while a user is signed in, and every list
\* query is filtered by, and every insert carries, the id of the user signed
\* in at the moment it is sent.
C23_RequestsScopedToSession ==
    \A r \in lastRequests :
        /\ r.auth # NoUser
        /\ r.op \in {"select", "insert"} => r.user_id = r.auth

====
